---- MODULE Spec2Model ----
(***************************************************************************)
(* Internship marketplace backend: the internship catalog (create, update, *)
(* delete, fetch-by-id) and the application ledger (apply, status update). *)
(* Every request is handled by an async Express handler; the steps of a    *)
(* handler are its database operations, and requests interleave between    *)
(* them.  The MongoDB collections are the only shared state.               *)
(***************************************************************************)
EXTENDS Integers, FiniteSets, Sequences, TLC

\* ------------------------------------------------------------------ bounds
MaxInternships == 1        \* internships ever created
MaxTime == 1               \* the wall clock runs over 0..MaxTime
MaxViews == 2              \* fetch-by-id requests ever started
MaxListed == 2             \* internships the searched catalog ever holds
MaxAlerts == 2             \* email alerts ever created
MaxLen == 3                \* characters of a list field sent as a string
MaxItems == 2              \* entries of a list field sent as an array
MaxAccounts == 2           \* registrations ever started
MaxPosts == 1              \* forum posts ever created

\* ------------------------------------------------------- program constants
DefaultMaxApplications == 100
FeaturedLimit == 6         \* .limit(6) of the featured listing

Companies == {"A", "B"}
Students == {"S1", "S2"}
\* An ObjectId that is the _id of no company.
NoCompany == "Z"
Procs == {1, 2}            \* requests in flight at the same time

Statuses == {"pending", "reviewed", "shortlisted", "interviewed", "accepted", "rejected"}

\* A request parameter that is not a 24-hex ObjectId string.
InvalidId == 0
\* ObjectIds that requests may name: the created ones and one never created.
ValidIds == 1..(MaxInternships + 1)
RequestIds == ValidIds \cup {InvalidId}

\* A field left out of a request body (JavaScript undefined).
Undefined == -1
\* A date that was never set.
NoDate == -1
\* A number JSON cannot carry (Infinity, NaN), serialized as null.
NoNumber == -3

InternshipTypes == {"full-time", "part-time", "remote", "hybrid"}

Routers == {"internships", "alerts"}

VARIABLES
    internships,        \* the Internship collection: _id -> document
    applications,       \* the Application collection: _id -> document
    users,              \* the User collection: student -> document
    now,                \* the wall clock (new Date())
    outbox,             \* the mails handed to the relay, with their outcome
    alerts,             \* the EmailAlert collection: _id -> document
    nextAlertId,        \* the next _id of the EmailAlert collection
    accounts,           \* the User and Company collections as the auth routes see them
    posts,              \* the Forum collection: _id -> document
    nextPostId,         \* the next _id of the Forum collection
    nextInternshipId,   \* ObjectIds are never reused
    nextApplicationId,
    req,                \* the requests in flight: slot -> handler state
    succeeded,          \* ghost: successful responses, by kind and internship
    scenario            \* ghost: progress of the end-to-end scenario

vars == <<internships, applications, users, now, outbox, alerts, nextAlertId, accounts, posts,
          nextPostId, nextInternshipId,
          nextApplicationId, req, succeeded, scenario>>

store == <<internships, applications, users>>

alertStore == <<alerts, nextAlertId>>

notifier == <<outbox, alertStore>>

forum == <<posts, nextPostId>>

community == <<accounts, forum>>

\* ---------------------------------------------------------------- documents
\* JavaScript null: no document.
Null == <<>>

\* internshipSchema: the defaults a created document gets.
NewInternship(id, company, maxApplications, applicationDeadline) ==
    [id |-> id,
     company |-> company,
     maxApplications |-> IF maxApplications = Undefined
                         THEN DefaultMaxApplications ELSE maxApplications,
     currentApplications |-> 0,
     isActive |-> TRUE,
     isFeatured |-> FALSE,
     views |-> 0,
     applicationDeadline |-> applicationDeadline,
     internshipType |-> "remote",
     skills |-> <<>>]

\* applicationSchema: the defaults a created document gets.
NewApplication(id, internship, applicant, company, coverLetter, resume) ==
    [id |-> id,
     internship |-> internship,
     applicant |-> applicant,
     company |-> company,
     coverLetter |-> coverLetter,
     resume |-> resume,
     status |-> "pending",
     reviewedAt |-> NoDate,
     notes |-> Undefined,
     feedback |-> Undefined,
     interviewScheduled |-> Undefined]

\* ---------------------------------------------------------------- responses
\* res.status(status).json({message}) / res.json({success: true, <document>}):
\* every 2xx body of the handlers is written with success: true, and the other
\* bodies they write, {message}, have no success key.
Json(status, message, body) ==
    [status |-> status, message |-> message, body |-> body,
     success |-> IF status \in 200..299 THEN "true" ELSE "absent"]
\* res.status(status).json({success: false, message})
Failure(status, message, body) ==
    [status |-> status, message |-> message, body |-> body, success |-> "false"]
NoRes == Json(0, "", Null)
\* An exception that leaves the handler: asyncHandler passes it to the
\* error middleware, which is not part of the handlers modelled here.
Thrown(error) == Failure(0, error, Null)
\* handleValidationErrors: an express-validator chain failed.
ValidationFailed == Failure(400, "Validation failed", Null)

\* The responses of the internship routes.
NotFound == Json(404, "Internship not found", Null)
NotAvailable == Json(404, "Internship not found or not available", Null)
DeadlinePassed == Json(400, "Application deadline has passed", Null)
AlreadyApplied == Json(400, "You have already applied for this internship", Null)
MaxReached == Json(400, "This internship has reached maximum applications", Null)
ResumeRequired ==
    Json(400, "Resume is required to apply for internships. Please upload your resume in your profile first.",
         Null)
InvalidIdFormat == Json(400, "Invalid internship ID format", Null)

\* A request slot: the handler's position and its local variables.
Idle ==
    [op |-> "idle", pc |-> "idle", router |-> "", user |-> "", id |-> 0,
     body |-> <<>>, coverLetter |-> "", resume |-> "", status |-> "",
     doc |-> Null, app |-> 0, res |-> NoRes]

Request(op, router, user, id) ==
    [Idle EXCEPT !.op = op, !.router = router, !.user = user, !.id = id]

Done(r, res) == [r EXCEPT !.pc = "done", !.res = res]

\* The response is on its way to the client: nothing else is scheduled
\* between a handler's last step and the delivery of its response.
Pending == \E p \in Procs : req[p].pc = "done"

\* ------------------------------------------------------------ mongoose calls
\* mongoose.Types.ObjectId.isValid
IsValidObjectId(id) == id # InvalidId

\* Model.findById: the stored document or null.
FindById(coll, id) == IF id \in DOMAIN coll THEN coll[id] ELSE Null

Found(doc) == doc # Null

\* Application.findOne({internship, applicant})
ExistingApplication(internship, applicant) ==
    {a \in DOMAIN applications :
        /\ applications[a].internship = internship
        /\ applications[a].applicant = applicant}

\* ------------------------------------------------------------------ initial
Init ==
    /\ internships = <<>>
    /\ applications = <<>>
    /\ users = [s \in Students |-> [resume |-> ""]]
    /\ now = 0
    /\ outbox = {}
    /\ alerts = <<>>
    /\ nextAlertId = 1
    /\ accounts = <<>>
    /\ posts = <<>>
    /\ nextPostId = 1
    /\ nextInternshipId = 1
    /\ nextApplicationId = 1
    /\ req = [p \in Procs |-> Idle]
    /\ succeeded = [k \in {"apply", "get"} |-> [i \in ValidIds |-> 0]]
    /\ scenario = 0

\* ------------------------------------------------------------ request inputs
CoverLetters == {"", "dear"}
\* POST bodies of create: maxApplications is optional.
CreateCaps == {Undefined, 1, 2}
Deadlines == 0..MaxTime
\* An applicationDeadline that is not an ISO8601 date.
InvalidDate == -2
\* PUT bodies of update: any subset of fields, taken as sent (req.body).
UpdateBodies ==
    { <<>>,
      [maxApplications |-> 0],
      [currentApplications |-> 0],
      [currentApplications |-> 2],
      [isActive |-> FALSE],
      [isActive |-> TRUE],
      [company |-> "B"],
      [applicationDeadline |-> 0],
      [applicationDeadline |-> InvalidDate] }

\* ------------------------------------------------------------------- helpers
Put(coll, id, doc) == (id :> doc) @@ coll
Remove(coll, id) == [i \in DOMAIN coll \ {id} |-> coll[i]]

FindAnyOwner(coll, id, company) == IF id \in DOMAIN coll THEN coll[id] ELSE Null

\* Model.findOne({_id: id, company: company}): the owner's document or null.
FindOwned(coll, id, company) ==
    IF id \in DOMAIN coll /\ coll[id].company = company THEN coll[id] ELSE Null

\* The $set that findOneAndUpdate applies: every path of the body.
ApplyUpdates(doc, updates) ==
    [f \in DOMAIN doc |-> IF f \in DOMAIN updates THEN updates[f] ELSE doc[f]]

\* document.save() after `doc.<field> += 1`: writes the modified path only,
\* with the value computed from the loaded copy.
SaveIncrement(coll, doc, field) ==
    [coll EXCEPT ![doc.id] = [@ EXCEPT ![field] = doc[field] + 1]]

InFlight(op) == Cardinality({p \in Procs : req[p].op = op /\ req[p].pc # "done"})

RECURSIVE Sum(_, _)
Sum(f, S) == IF S = {} THEN 0
             ELSE LET x == CHOOSE y \in S : TRUE IN f[x] + Sum(f, S \ {x})

\* --------------------------------------------------------------------- clock
Tick ==
    /\ now < MaxTime
    /\ now' = now + 1
    /\ UNCHANGED <<store, notifier, community, nextInternshipId, nextApplicationId, req, succeeded>>

\* The client receives the response; the slot is free again.
Deliver(p) ==
    /\ req[p].pc = "done"
    /\ req' = [req EXCEPT ![p] = Idle]
    /\ UNCHANGED <<store, now, community, notifier, nextInternshipId, nextApplicationId, succeeded>>

\* --------------------------------------------------------------- list fields
\* A string is the sequence of its characters; a list is a sequence of strings.
\* requirements, responsibilities, skills, benefits and tags go through the
\* same code in every handler: skills stands for the five.
Space == " "
Comma == ","

RECURSIVE TrimStart(_)
TrimStart(s) == IF s # <<>> /\ Head(s) = Space THEN TrimStart(Tail(s)) ELSE s

RECURSIVE TrimEnd(_)
TrimEnd(s) ==
    IF s # <<>> /\ s[Len(s)] = Space THEN TrimEnd(SubSeq(s, 1, Len(s) - 1)) ELSE s

\* String.prototype.trim
Trim(s) == TrimEnd(TrimStart(s))

\* String.prototype.split(','): the pieces between the commas, the empty
\* pieces included; the empty string splits into one empty piece.
RECURSIVE Split(_)
Split(s) ==
    IF \A i \in DOMAIN s : s[i] # Comma THEN <<s>>
    ELSE LET i == CHOOSE k \in DOMAIN s : s[k] = Comma /\ \A j \in 1..(k - 1) : s[j] # Comma
         IN <<SubSeq(s, 1, i - 1)>> \o Split(SubSeq(s, i + 1, Len(s)))

\* x.split(',').map(e => e.trim())
SplitTrim(s) == LET pieces == Split(s) IN [i \in DOMAIN pieces |-> Trim(pieces[i])]

\* A list field of a request body: absent, a JSON array of strings, or a string.
Absent == [kind |-> "absent"]
ArrayOf(list) == [kind |-> "array", value |-> list]
StringOf(s) == [kind |-> "string", value |-> s]

\* JavaScript truthiness: undefined and '' are falsy, every array is truthy.
Truthy(x) == x.kind = "array" \/ (x.kind = "string" /\ x.value # <<>>)

\* The schema's [{type: String, trim: true}]: every entry is trimmed when set;
\* a value that is not an array is cast to the array of that value.
CastList(x) ==
    LET list == IF x.kind = "array" THEN x.value ELSE <<x.value>>
    IN [i \in DOMAIN list |-> Trim(list[i])]

\* A TypeError: split is not a function of an array.
NotAFunction == [kind |-> "TypeError"]

\* POST /api/internships: Array.isArray(x) ? x : (x ? x.split(',').map(trim) : [])
\* POST /api/companies/internships: x ? x.split(',').map(trim) : []
CreateList(router, x) ==
    IF router = "internships" /\ x.kind = "array" THEN x
    ELSE IF ~Truthy(x) THEN ArrayOf(<<>>)
    ELSE IF x.kind = "array" THEN NotAFunction
    ELSE ArrayOf(SplitTrim(x.value))

\* PUT /api/companies/internships/:id: if (x) x = x.split(',').map(trim)
UpdateList(x) ==
    IF ~Truthy(x) THEN x
    ELSE IF x.kind = "array" THEN NotAFunction
    ELSE ArrayOf(SplitTrim(x.value))

\* The list field of the body, absent when the body does not have it.
ListOf(body) == IF "skills" \in DOMAIN body THEN body.skills ELSE Absent

\* ------------------------------------------------------------------- catalog
\* POST /api/users/resume
UploadResume(p, s) ==
    /\ req[p].pc = "idle"
    /\ users' = [users EXCEPT ![s].resume = "cv"]
    /\ req' = [req EXCEPT ![p] =
                 Done(Request("resume", "users", s, 0), Json(200, "Resume uploaded successfully", Null))]
    /\ UNCHANGED <<internships, applications, now, community, notifier, nextInternshipId,
                   nextApplicationId, succeeded>>

\* POST /api/internships (router "internships") and POST
\* /api/companies/internships (router "companies"), with the body
\* {maxApplications, applicationDeadline, internshipType, skills?}.
PostAt(p, router, c, body) ==
    /\ req[p].pc = "idle"
    /\ nextInternshipId <= MaxListed
    /\ LET r == [Request("create", router, c, 0) EXCEPT !.body = body]
           skills == CreateList(router, ListOf(body))
       IN IF body.applicationDeadline = InvalidDate \/ body.internshipType \notin InternshipTypes
          THEN /\ req' = [req EXCEPT ![p] = Done(r, ValidationFailed)]
               /\ UNCHANGED <<internships, nextInternshipId>>
          ELSE IF skills = NotAFunction
          THEN /\ req' = [req EXCEPT ![p] = Done(r, Thrown("TypeError"))]
               /\ UNCHANGED <<internships, nextInternshipId>>
          ELSE LET doc == [NewInternship(nextInternshipId, c, body.maxApplications,
                                         body.applicationDeadline)
                              EXCEPT !.internshipType = body.internshipType,
                                     !.skills = CastList(skills)]
               IN /\ internships' = Put(internships, doc.id, doc)
                  /\ nextInternshipId' = nextInternshipId + 1
                  /\ req' = [req EXCEPT ![p] =
                               Done([r EXCEPT !.id = doc.id], Json(201, "", doc))]
    /\ UNCHANGED <<applications, users, now, community, notifier, nextApplicationId, succeeded>>

\* POST /api/internships
Post(p, c, body) == PostAt(p, "internships", c, body)

\* The same, for a remote internship.
Create(p, c, maxApplications, applicationDeadline) ==
    /\ nextInternshipId <= MaxInternships
    /\ Post(p, c, [maxApplications |-> maxApplications,
                   applicationDeadline |-> applicationDeadline,
                   internshipType |-> "remote"])

\* The update document findOneAndUpdate is given: the list field converted
\* and cast, undefined keys stripped, every other path as sent.
ConvertedUpdates(updates) ==
    LET sent == {f \in DOMAIN updates : f # "skills" \/ updates[f] # Absent}
    IN [f \in sent |-> IF f = "skills" THEN CastList(UpdateList(updates[f])) ELSE updates[f]]

\* PUT /api/companies/internships/:id -- the response and the collection after it.
UpdateResult(coll, c, id, updates) ==
    IF "applicationDeadline" \in DOMAIN updates /\ updates.applicationDeadline = InvalidDate
    THEN [res |-> ValidationFailed, coll |-> coll]
    ELSE IF UpdateList(ListOf(updates)) = NotAFunction
    THEN [res |-> Thrown("TypeError"), coll |-> coll]
    ELSE IF ~IsValidObjectId(id)
    THEN [res |-> Thrown("CastError"), coll |-> coll]
    ELSE LET doc == FindOwned(coll, id, c)
         IN IF ~Found(doc)
            THEN [res |-> NotFound, coll |-> coll]
            ELSE LET new == ApplyUpdates(doc, ConvertedUpdates(updates))
                 IN [res |-> Json(200, "", new), coll |-> [coll EXCEPT ![id] = new]]

Update(p, c, id, updates) ==
    /\ req[p].pc = "idle"
    /\ LET r == UpdateResult(internships, c, id, updates)
       IN /\ internships' = r.coll
          /\ req' = [req EXCEPT ![p] = Done([Request("update", "companies", c, id) EXCEPT !.body = updates], r.res)]
    /\ UNCHANGED <<applications, users, now, community, notifier, nextInternshipId, nextApplicationId, succeeded>>

\* A delete that answers without removing the document.
DeleteResultSoft(coll, c, id) ==
    IF ~IsValidObjectId(id)
    THEN [res |-> Thrown("CastError"), coll |-> coll]
    ELSE IF ~Found(FindOwned(coll, id, c))
    THEN [res |-> NotFound, coll |-> coll]
    ELSE [res |-> Json(200, "Internship deleted successfully", Null), coll |-> coll]

\* DELETE /api/companies/internships/:id -- the response and the collection after it.
DeleteResult(coll, c, id) ==
    IF ~IsValidObjectId(id)
    THEN [res |-> Thrown("CastError"), coll |-> coll]
    ELSE LET doc == FindOwned(coll, id, c)
         IN IF ~Found(doc)
            THEN [res |-> NotFound, coll |-> coll]
            ELSE [res |-> Json(200, "Internship deleted successfully", Null),
                  coll |-> Remove(coll, id)]

Delete(p, c, id) ==
    /\ req[p].pc = "idle"
    /\ LET r == DeleteResult(internships, c, id)
       IN /\ internships' = r.coll
          /\ req' = [req EXCEPT ![p] = Done(Request("delete", "companies", c, id), r.res)]
    /\ UNCHANGED <<applications, users, now, community, notifier, nextInternshipId, nextApplicationId, succeeded>>

GetFindUnchecked(router, id, internship) ==
    IF ~IsValidObjectId(id) THEN Thrown("CastError")
    ELSE IF ~Found(internship) THEN NotFound
    ELSE NoRes

\* GET /api/internships/:id -- what the handler answers after the lookup;
\* NoRes when it goes on to count the view.  The copy of the handler in
\* alerts.js does not validate the id, and findById throws.
GetFindResult(router, id, internship) ==
    IF router = "internships" /\ ~IsValidObjectId(id) THEN InvalidIdFormat
    ELSE IF ~IsValidObjectId(id) THEN Thrown("CastError")
    ELSE IF ~Found(internship) THEN NotFound
    ELSE NoRes

\* GET /api/internships/:id -- first step: validate, load, null check.
GetFind(p, router, id) ==
    /\ req[p].pc = "idle"
    /\ Sum(succeeded.get, ValidIds) + InFlight("get") < MaxViews
    /\ LET r == Request("get", router, "", id)
           internship == FindById(internships, id)
           res == GetFindResult(router, id, internship)
       IN IF res # NoRes
          THEN req' = [req EXCEPT ![p] = Done(r, res)]
          ELSE req' = [req EXCEPT ![p] = [r EXCEPT !.pc = "save", !.doc = internship]]
    /\ UNCHANGED <<store, now, community, notifier, nextInternshipId, nextApplicationId, succeeded>>

\* GET /api/internships/:id -- second step: views += 1, save, respond.
GetSave(p) ==
    /\ req[p].op = "get" /\ req[p].pc = "save"
    /\ LET internship == req[p].doc
       IN IF internship.id \in DOMAIN internships
          THEN /\ internships' = SaveIncrement(internships, internship, "views")
               /\ req' = [req EXCEPT ![p] =
                            Done(@, Json(200, "", [internship EXCEPT !.views = @ + 1]))]
               /\ succeeded' = [succeeded EXCEPT !.get[internship.id] = @ + 1]
          ELSE /\ req' = [req EXCEPT ![p] = Done(@, Thrown("DocumentNotFoundError"))]
               /\ UNCHANGED <<internships, succeeded>>
    /\ UNCHANGED <<applications, users, now, community, notifier, nextInternshipId, nextApplicationId>>

\* -------------------------------------------------------------------- search
MatchesFiltersOnly(doc, query) ==
    query.internshipType # "" => doc.internshipType = query.internshipType

\* The query of GET /api/internships: {isActive: true} and the filters given.
Matches(doc, query) ==
    /\ doc.isActive
    /\ query.internshipType # "" => doc.internshipType = query.internshipType

Matching(coll, query) == {i \in DOMAIN coll : Matches(coll[i], query)}

\* The query of GET /api/internships/featured.
IsFeatured(doc) == doc.isActive /\ doc.isFeatured

\* createdAt follows the order of creation, as the ids do.
SortValue(doc, sort) ==
    IF sort = "createdAt" THEN doc.id
    ELSE IF sort = "applicationDeadline" THEN doc.applicationDeadline
    ELSE IF sort = "views" THEN doc.views
    ELSE 0

\* .sort(sortOptions): the orders in which the documents of ids may come
\* back; documents of equal sort value come in any order.
Orderings(coll, ids, sort, order) ==
    {f \in [1..Cardinality(ids) -> ids] :
        /\ \A a, b \in DOMAIN f : a # b => f[a] # f[b]
        /\ \A a, b \in DOMAIN f :
               a < b => IF order = "desc"
                        THEN SortValue(coll[f[a]], sort) >= SortValue(coll[f[b]], sort)
                        ELSE SortValue(coll[f[a]], sort) <= SortValue(coll[f[b]], sort)}

\* .skip(skip).limit(limit): limit(0) is no limit.
Page(list, skip, limit) ==
    SubSeq(list, skip + 1, IF limit = 0 \/ skip + limit > Len(list) THEN Len(list) ELSE skip + limit)

\* Math.ceil(total / limit) as JSON carries it: x / 0 is Infinity or NaN.
Pages(total, limit) ==
    IF limit = 0 THEN NoNumber ELSE (total + limit - 1) \div limit

\* GET /api/internships -- first step: build the query, find, sort, skip and
\* limit.  The server refuses a negative skip.
SearchFind(p, query) ==
    /\ req[p].pc = "idle"
    /\ LET r == [Request("search", "internships", "", 0) EXCEPT !.body = query]
           skip == (query.page - 1) * query.limit
       IN IF skip < 0
          THEN req' = [req EXCEPT ![p] = Done(r, Thrown("MongoServerError"))]
          ELSE \E f \in Orderings(internships, Matching(internships, query),
                                  query.sort, query.order) :
                   req' = [req EXCEPT ![p] =
                             [r EXCEPT !.pc = "count",
                                       !.doc = Page([k \in DOMAIN f |-> internships[f[k]]],
                                                    skip, query.limit)]]
    /\ UNCHANGED <<store, now, community, notifier, nextInternshipId, nextApplicationId, succeeded>>

\* GET /api/internships -- second step: countDocuments, respond.
SearchCount(p) ==
    /\ req[p].op = "search" /\ req[p].pc = "count"
    /\ LET r == req[p]
           total == Cardinality(Matching(internships, r.body))
       IN req' = [req EXCEPT ![p] =
                    Done(r, Json(200, "", [count |-> Len(r.doc),
                                           total |-> total,
                                           page |-> r.body.page,
                                           pages |-> Pages(total, r.body.limit),
                                           internships |-> r.doc]))]
    /\ UNCHANGED <<store, now, community, notifier, nextInternshipId, nextApplicationId, succeeded>>

\* GET /api/internships/featured
Featured(p) ==
    /\ req[p].pc = "idle"
    /\ \E f \in Orderings(internships, {i \in DOMAIN internships : IsFeatured(internships[i])},
                           "createdAt", "desc") :
           LET list == Page([k \in DOMAIN f |-> internships[f[k]]], 0, FeaturedLimit)
           IN req' = [req EXCEPT ![p] =
                        Done(Request("featured", "internships", "", 0),
                             Json(200, "", [count |-> Len(list), internships |-> list]))]
    /\ UNCHANGED <<store, now, community, notifier, nextInternshipId, nextApplicationId, succeeded>>

\* -------------------------------------------------------------------- ledger
\* POST /api/internships/:id/apply -- what the handler answers after loading
\* the internship; NoRes when it goes on to the duplicate lookup.
ApplyFindResult(router, coverLetter, id, internship, time) ==
    IF coverLetter = "" THEN ValidationFailed
    ELSE IF router = "internships" /\ ~IsValidObjectId(id) THEN InvalidIdFormat
    ELSE IF ~IsValidObjectId(id) THEN Thrown("CastError")
    ELSE IF ~Found(internship) \/ ~internship.isActive THEN NotAvailable
    ELSE IF time > internship.applicationDeadline THEN DeadlinePassed
    ELSE NoRes

\* POST /api/internships/:id/apply -- first step: validate the body, load the
\* caller (protect), load the internship, then checks (1) and (2).
ApplyFind(p, router, s, id, coverLetter) ==
    /\ req[p].pc = "idle"
    /\ LET r == [Request("apply", router, s, id) EXCEPT
                   !.coverLetter = coverLetter, !.resume = users[s].resume]
           internship == FindById(internships, id)
           res == ApplyFindResult(router, coverLetter, id, internship, now)
       IN IF res # NoRes
          THEN req' = [req EXCEPT ![p] = Done(r, res)]
          ELSE req' = [req EXCEPT ![p] = [r EXCEPT !.pc = "check", !.doc = internship]]
    /\ UNCHANGED <<store, now, community, notifier, nextInternshipId, nextApplicationId, succeeded>>

CapBeforeDuplicate(router, applied, internship, resume) ==
    IF internship.currentApplications >= internship.maxApplications THEN MaxReached
    ELSE IF applied THEN AlreadyApplied
    ELSE IF router = "internships" /\ resume = "" THEN ResumeRequired
    ELSE NoRes

\* POST /api/internships/:id/apply -- what the handler answers after the
\* duplicate lookup; NoRes when it goes on to Application.create.  The copy
\* of the handler in alerts.js has no resume check.
ApplyCheckResult(router, applied, internship, resume) ==
    IF applied THEN AlreadyApplied
    ELSE IF internship.currentApplications >= internship.maxApplications THEN MaxReached
    ELSE IF router = "internships" /\ resume = "" THEN ResumeRequired
    ELSE NoRes

\* POST /api/internships/:id/apply -- second step: look for an application of
\* the caller, then checks (3), (4) and (5).
ApplyCheck(p) ==
    /\ req[p].op = "apply" /\ req[p].pc = "check"
    /\ LET r == req[p]
           res == ApplyCheckResult(r.router, ExistingApplication(r.id, r.user) # {},
                                   r.doc, r.resume)
       IN IF res # NoRes
          THEN req' = [req EXCEPT ![p] = Done(r, res)]
          ELSE req' = [req EXCEPT ![p].pc = "create"]
    /\ UNCHANGED <<store, now, community, notifier, nextInternshipId, nextApplicationId, succeeded>>

NoUniqueIndex(internship, applicant) == TRUE

\* The unique index {internship, applicant} of the Application collection.
UniqueIndexAllows(internship, applicant) == ExistingApplication(internship, applicant) = {}

\* POST /api/internships/:id/apply -- third step: Application.create.
ApplyCreate(p) ==
    /\ req[p].op = "apply" /\ req[p].pc = "create"
    /\ LET r == req[p]
           application == NewApplication(nextApplicationId, r.id, r.user, r.doc.company,
                                         r.coverLetter, r.resume)
       IN IF r.resume = ""
          THEN /\ req' = [req EXCEPT ![p] = Done(r, Thrown("ValidationError"))]
               /\ UNCHANGED <<applications, nextApplicationId>>
          ELSE IF ~UniqueIndexAllows(r.id, r.user)
          THEN /\ req' = [req EXCEPT ![p] = Done(r, Thrown("E11000 duplicate key"))]
               /\ UNCHANGED <<applications, nextApplicationId>>
          ELSE /\ applications' = Put(applications, application.id, application)
               /\ nextApplicationId' = nextApplicationId + 1
               /\ req' = [req EXCEPT ![p] = [r EXCEPT !.pc = "save", !.app = application.id]]
    /\ UNCHANGED <<internships, users, now, community, notifier, nextInternshipId, succeeded>>

\* POST /api/internships/:id/apply -- last step: currentApplications += 1,
\* save, respond.
ApplySave(p) ==
    /\ req[p].op = "apply" /\ req[p].pc = "save"
    /\ LET r == req[p]
           internship == r.doc
       IN IF internship.id \in DOMAIN internships
          THEN /\ internships' = SaveIncrement(internships, internship, "currentApplications")
               /\ req' = [req EXCEPT ![p] =
                            Done(r, Json(201, "Application submitted successfully",
                                         applications[r.app]))]
               /\ succeeded' = [succeeded EXCEPT !.apply[internship.id] = @ + 1]
          ELSE /\ req' = [req EXCEPT ![p] = Done(r, Thrown("DocumentNotFoundError"))]
               /\ UNCHANGED <<internships, succeeded>>
    /\ UNCHANGED <<applications, users, now, community, notifier, nextInternshipId, nextApplicationId>>

StatusSetKeepsOld(old, key, value, omitUndefined) == old[key]

StatusSetWritesNull(old, key, value, omitUndefined) ==
    IF value # Undefined THEN value
    ELSE IF key = "reviewedAt" THEN NoDate ELSE Undefined

\* The update document of the status handler: a key whose value is undefined
\* is dropped from the update (omitUndefined), or written as null by the
\* mongoose versions before 6.
StatusSet(old, key, value, omitUndefined) ==
    IF value # Undefined THEN value
    ELSE IF omitUndefined THEN old[key]
    ELSE IF key = "reviewedAt" THEN NoDate ELSE Undefined

StatusResultUnvalidated(coll, c, id, status, notes, feedback, interviewScheduled, omitUndefined) ==
    LET old == FindOwned(coll, id, c)
    IN IF ~Found(old)
       THEN [res |-> Json(404, "Application not found", Null), coll |-> coll]
       ELSE LET new == [old EXCEPT !.status = status,
                                   !.reviewedAt = IF status # "pending" THEN now ELSE @]
            IN [res |-> Json(200, "", new), coll |-> [coll EXCEPT ![id] = new]]

StatusResultForAnyOwner(coll, c, id, status, notes, feedback, interviewScheduled, omitUndefined) ==
    IF status \notin Statuses
    THEN [res |-> ValidationFailed, coll |-> coll]
    ELSE IF id \notin DOMAIN coll
    THEN [res |-> Json(404, "Application not found", Null), coll |-> coll]
    ELSE LET new == [coll[id] EXCEPT !.status = status]
         IN [res |-> Json(200, "", new), coll |-> [coll EXCEPT ![id] = new]]

\* PUT /api/companies/applications/:id/status -- the response and the
\* collection after it.
StatusResult(coll, c, id, status, notes, feedback, interviewScheduled, omitUndefined) ==
    IF status \notin Statuses
    THEN [res |-> ValidationFailed, coll |-> coll]
    ELSE IF ~IsValidObjectId(id)
    THEN [res |-> Thrown("CastError"), coll |-> coll]
    ELSE LET old == FindOwned(coll, id, c)
         IN IF ~Found(old)
            THEN [res |-> Json(404, "Application not found", Null), coll |-> coll]
            ELSE LET new == [old EXCEPT
                               !.status = status,
                               !.notes = StatusSet(old, "notes", notes, omitUndefined),
                               !.feedback = StatusSet(old, "feedback", feedback, omitUndefined),
                               !.interviewScheduled =
                                   StatusSet(old, "interviewScheduled", interviewScheduled, omitUndefined),
                               !.reviewedAt =
                                   StatusSet(old, "reviewedAt",
                                             IF status # "pending" THEN now ELSE Undefined,
                                             omitUndefined)]
                 IN [res |-> Json(200, "", new), coll |-> [coll EXCEPT ![id] = new]]

StatusUpdate(p, c, id, status, notes, feedback, interviewScheduled, omitUndefined) ==
    /\ req[p].pc = "idle"
    /\ LET r == StatusResult(applications, c, id, status, notes, feedback,
                             interviewScheduled, omitUndefined)
       IN /\ applications' = r.coll
          /\ req' = [req EXCEPT ![p] =
                       Done([Request("status", "companies", c, id) EXCEPT !.status = status],
                            r.res)]
    /\ UNCHANGED <<internships, users, now, community, notifier, nextInternshipId, nextApplicationId, succeeded>>

\* req.userType as protect sets it: 'user' for a document of the User
\* collection, 'company' for one of the Company collection.
UserType(user) == IF user \in Students THEN "user" ELSE "company"

Forbidden == Json(403, "Not authorized to view this application", Null)

\* GET /api/internships/applications/:id -- the response.  populate gives
\* null for a reference to no document, and the company check reads
\* application.company._id.
FetchApplicationResult(coll, user, id) ==
    IF ~IsValidObjectId(id) THEN Thrown("CastError")
    ELSE LET application == FindById(coll, id)
         IN IF ~Found(application) THEN Json(404, "Application not found", Null)
            ELSE IF UserType(user) = "user" /\ application.applicant # user THEN Forbidden
            ELSE IF UserType(user) = "company" /\ application.company \notin Companies
            THEN Thrown("TypeError")
            ELSE IF UserType(user) = "company" /\ application.company # user THEN Forbidden
            ELSE Json(200, "", application)

FetchApplication(p, user, id) ==
    /\ req[p].pc = "idle"
    /\ req' = [req EXCEPT ![p] =
                 Done(Request("application", "internships", user, id),
                      FetchApplicationResult(applications, user, id))]
    /\ UNCHANGED <<store, now, community, notifier, nextInternshipId, nextApplicationId, succeeded>>

\* ------------------------------------------------------------ outbound mail
\* transporter.sendMail: one mail handed to the relay; `ok` is whether the
\* relay took it (the promise resolved) or refused it (the promise rejected).
Mail(to, subject, about, ok) == [to |-> to, subject |-> subject, about |-> about, ok |-> ok]

\* error.message of a rejected sendMail
RelayError == "relay"

\* The status mail addressed to the company instead of the applicant.
NotifyMailToCompany(application, ok) == Mail(application.company, "status", application.id, ok)

\* POST /api/alerts/application-status: the mail to the applicant.
NotifyMail(application, ok) == Mail(application.applicant, "status", application.id, ok)

NotifyForbidden == Json(403, "Not authorized to send notification for this application", Null)
NotifySent == Json(200, "Status notification sent successfully", Null)
NotifyFailed == Failure(500, "Failed to send notification", [error |-> RelayError])

\* POST /api/alerts/application-status up to the mail: the response, or NoRes
\* when the handler goes on to send.  The populated company of a dangling
\* reference is null, and status.charAt of an absent status throws.
NotifyFindResult(coll, c, id, body) ==
    IF ~IsValidObjectId(id) THEN Thrown("CastError")
    ELSE LET application == FindById(coll, id)
         IN IF ~Found(application) THEN Json(404, "Application not found", Null)
            ELSE IF application.company \notin Companies THEN Thrown("TypeError")
            ELSE IF application.company # c THEN NotifyForbidden
            ELSE IF "status" \notin DOMAIN body THEN Thrown("TypeError")
            ELSE NoRes

NotifyFind(p, c, id, body) ==
    /\ req[p].pc = "idle"
    /\ LET r == [Request("notify", "alerts", c, id) EXCEPT !.body = body]
           res == NotifyFindResult(applications, c, id, body)
       IN req' = [req EXCEPT ![p] =
                    IF res = NoRes
                    THEN [r EXCEPT !.pc = "mail", !.doc = FindById(applications, id)]
                    ELSE Done(r, res)]
    /\ UNCHANGED <<store, now, community, notifier, nextInternshipId, nextApplicationId, succeeded>>

\* await transporter.sendMail(...) inside try/catch.
NotifySend(p) ==
    /\ req[p].op = "notify"
    /\ req[p].pc = "mail"
    /\ \E ok \in BOOLEAN :
          /\ outbox' = outbox \cup {NotifyMail(req[p].doc, ok)}
          /\ req' = [req EXCEPT ![p] = Done(req[p], IF ok THEN NotifySent ELSE NotifyFailed)]
    /\ UNCHANGED <<store, now, community, alertStore, nextInternshipId, nextApplicationId, succeeded>>

\* ------------------------------------------------------------- contact form
Support == "support"

ContactSent ==
    Json(200, "Your message has been sent successfully. We will get back to you soon.", Null)
ContactFailed == Failure(500, "Failed to send message. Please try again later.", Null)

\* body('email').isEmail() and the notEmpty fields
ValidContact(body) == body.email # "" /\ body.message # ""

\* POST /api/contact up to its first mail.
Contact(p, body) ==
    /\ req[p].pc = "idle"
    /\ LET r == [Request("contact", "contact", body.email, 0) EXCEPT !.body = body]
       IN req' = [req EXCEPT ![p] =
                    IF ValidContact(body) THEN [r EXCEPT !.pc = "mail"]
                    ELSE Done(r, ValidationFailed)]
    /\ UNCHANGED <<store, now, community, notifier, nextInternshipId, nextApplicationId, succeeded>>

\* await transporter.sendMail to the support address, inside try/catch.
ContactSupportMail(p) ==
    /\ req[p].op = "contact"
    /\ req[p].pc = "mail"
    /\ \E ok \in BOOLEAN :
          /\ outbox' = outbox \cup {Mail(Support, "contact", 0, ok)}
          /\ req' = [req EXCEPT ![p] =
                       IF ok THEN [req[p] EXCEPT !.pc = "confirm"]
                       ELSE Done(req[p], ContactFailed)]
    /\ UNCHANGED <<store, now, community, alertStore, nextInternshipId, nextApplicationId, succeeded>>

\* await transporter.sendMail of the confirmation to the sender, in the same try.
ContactConfirm(p) ==
    /\ req[p].op = "contact"
    /\ req[p].pc = "confirm"
    /\ \E ok \in BOOLEAN :
          /\ outbox' = outbox \cup {Mail(req[p].body.email, "confirmation", 0, ok)}
          /\ req' = [req EXCEPT ![p] = Done(req[p], IF ok THEN ContactSent ELSE ContactFailed)]
    /\ UNCHANGED <<store, now, community, alertStore, nextInternshipId, nextApplicationId, succeeded>>

\* ------------------------------------------------------------- email alerts
NewAlert(id, user, internshipTypes, frequency) ==
    [id |-> id, user |-> user, internshipTypes |-> internshipTypes, isActive |-> TRUE,
     frequency |-> frequency, lastSent |-> NoDate]

Frequencies == {"daily", "weekly", "monthly"}

\* const { frequency = 'weekly' } = req.body
FrequencyOf(body) == IF "frequency" \in DOMAIN body THEN body.frequency ELSE "weekly"

\* EmailAlert.findOne({user, isActive: true})
ActiveAlerts(user) == {a \in DOMAIN alerts : alerts[a].user = user /\ alerts[a].isActive}

AlertExists ==
    Json(400, "You already have an active email alert. Please update or delete the existing one.",
         Null)

\* POST /api/alerts up to EmailAlert.create.
AlertFind(p, s, body) ==
    /\ req[p].pc = "idle"
    /\ nextAlertId <= MaxAlerts
    /\ LET r == [Request("alert", "alerts", s, 0) EXCEPT !.body = body]
       IN req' = [req EXCEPT ![p] =
                    IF FrequencyOf(body) \notin Frequencies THEN Done(r, ValidationFailed)
                    ELSE IF ActiveAlerts(s) # {} THEN Done(r, AlertExists)
                    ELSE [r EXCEPT !.pc = "create"]]
    /\ UNCHANGED <<store, now, community, notifier, nextInternshipId, nextApplicationId, succeeded>>

\* EmailAlert.create and the 201.
AlertCreate(p) ==
    /\ req[p].op = "alert"
    /\ req[p].pc = "create"
    /\ LET alert == NewAlert(nextAlertId, req[p].user, req[p].body.internshipTypes,
                             FrequencyOf(req[p].body))
       IN /\ alerts' = Put(alerts, nextAlertId, alert)
          /\ nextAlertId' = nextAlertId + 1
          /\ req' = [req EXCEPT ![p] =
                       Done(req[p], Json(201, "Email alert created successfully", alert))]
    /\ UNCHANGED <<store, now, community, outbox, nextInternshipId, nextApplicationId, succeeded>>

\* DELETE /api/alerts/:id: findOneAndDelete({_id, user}).
AlertDelete(p, s, id) ==
    /\ req[p].pc = "idle"
    /\ LET r == Request("unalert", "alerts", s, id)
           owned == id \in DOMAIN alerts /\ alerts[id].user = s
       IN /\ alerts' = IF IsValidObjectId(id) /\ owned THEN Remove(alerts, id) ELSE alerts
          /\ req' = [req EXCEPT ![p] =
                       Done(r, IF ~IsValidObjectId(id) THEN Thrown("CastError")
                               ELSE IF ~owned THEN Json(404, "Email alert not found", Null)
                               ELSE Json(200, "Email alert deleted successfully", Null))]
    /\ UNCHANGED <<store, now, community, outbox, nextAlertId, nextInternshipId, nextApplicationId, succeeded>>

\* PUT /api/alerts/:id: findOneAndUpdate({_id, user}, updates) with
\* updates = req.body, every path of the body is set.
AlertUpdate(p, s, id, updates) ==
    /\ req[p].pc = "idle"
    /\ LET r == [Request("realert", "alerts", s, id) EXCEPT !.body = updates]
           valid == FrequencyOf(updates) \in Frequencies
           owned == id \in DOMAIN alerts /\ alerts[id].user = s
           alert == IF owned THEN ApplyUpdates(alerts[id], updates) ELSE Null
       IN /\ alerts' = IF valid /\ IsValidObjectId(id) /\ owned
                       THEN [alerts EXCEPT ![id] = alert] ELSE alerts
          /\ req' = [req EXCEPT ![p] =
                       Done(r, IF ~valid THEN ValidationFailed
                               ELSE IF ~IsValidObjectId(id) THEN Thrown("CastError")
                               ELSE IF ~owned THEN Json(404, "Email alert not found", Null)
                               ELSE Json(200, "Email alert updated successfully", alert))]
    /\ UNCHANGED <<store, now, community, outbox, nextAlertId, nextInternshipId, nextApplicationId, succeeded>>

\* ------------------------------------------------------- send-notifications
Admin == "admin"

\* EmailAlert.find({isActive: true, frequency}), in _id order.
RECURSIVE AlertsDue(_, _)
AlertsDue(frequency, from) ==
    IF from >= nextAlertId THEN <<>>
    ELSE (IF from \in DOMAIN alerts /\ alerts[from].isActive /\ alerts[from].frequency = frequency
          THEN <<alerts[from]>> ELSE <<>>) \o AlertsDue(frequency, from + 1)

\* The internships the alert's query finds: {isActive: true, internshipType:
\* {$in: alert.internshipTypes}} when the alert names types.
AlertMatches(alert) ==
    {i \in DOMAIN internships :
        /\ internships[i].isActive
        /\ alert.internshipTypes # {} => internships[i].internshipType \in alert.internshipTypes}

BroadcastSent(emailsSent, errors) ==
    Json(200, "Email notifications sent successfully",
         [emailsSent |-> emailsSent, errors |-> errors])

\* The end of one turn of the loop over the alerts: on to the next alert, or
\* the response after the last one.
NextAlert(r, emailsSent, errors) ==
    LET rest == Tail(r.doc)
        s == [r EXCEPT !.doc = rest, !.body = [emailsSent |-> emailsSent, errors |-> errors]]
    IN IF rest = <<>> THEN Done(s, BroadcastSent(emailsSent, errors))
       ELSE [s EXCEPT !.pc = "loop"]

\* The catch that drops the error.
NotPushed(errors, alert, error) == errors

\* errors.push({email, error: error.message})
Pushed(errors, alert, error) == Append(errors, [email |-> alert.user, error |-> error])

\* POST /api/alerts/send-notifications up to the loop.  No route writes
\* emailNotifications, so every user keeps the schema's default, true.
BroadcastFind(p, body) ==
    /\ req[p].pc = "idle"
    /\ LET due == AlertsDue(FrequencyOf(body), 1)
           r == [Request("broadcast", "alerts", Admin, 0) EXCEPT
                   !.doc = due, !.body = [emailsSent |-> 0, errors |-> <<>>]]
       IN req' = [req EXCEPT ![p] =
                    IF due = <<>> THEN Done(r, BroadcastSent(0, <<>>))
                    ELSE [r EXCEPT !.pc = "loop"]]
    /\ UNCHANGED <<store, now, community, notifier, nextInternshipId, nextApplicationId, succeeded>>

\* An ObjectId that is the _id of no user.
NoUser == "nobody"

\* One turn of the loop up to the mail: alert.user.emailNotifications, then
\* await Internship.find(query) for the alert at hand; nothing found:
\* continue.  populate('user') leaves null for a reference to no user: the
\* read throws inside the try, and the catch, which reads alert.user.email,
\* throws again, out of the loop.
BroadcastQuery(p) ==
    /\ req[p].op = "broadcast"
    /\ req[p].pc = "loop"
    /\ req' = [req EXCEPT ![p] =
                 IF Head(req[p].doc).user \notin DOMAIN users
                 THEN Done(req[p], Thrown("TypeError"))
                 ELSE IF AlertMatches(Head(req[p].doc)) = {}
                 THEN NextAlert(req[p], req[p].body.emailsSent, req[p].body.errors)
                 ELSE [req[p] EXCEPT !.pc = "mail"]]
    /\ UNCHANGED <<store, now, community, notifier, nextInternshipId, nextApplicationId, succeeded>>

\* await transporter.sendMail to the alert's user; a refusal goes to the catch
\* of this turn of the loop.
BroadcastSend(p) ==
    /\ req[p].op = "broadcast"
    /\ req[p].pc = "mail"
    /\ \E ok \in BOOLEAN :
          /\ outbox' = outbox \cup {Mail(Head(req[p].doc).user, "alert", 0, ok)}
          /\ req' = [req EXCEPT ![p] =
                       IF ok THEN [req[p] EXCEPT !.pc = "save"]
                       ELSE NextAlert(req[p], req[p].body.emailsSent,
                                      Pushed(req[p].body.errors, Head(req[p].doc), RelayError))]
    /\ UNCHANGED <<store, now, community, alertStore, nextInternshipId, nextApplicationId, succeeded>>

\* alert.lastSent = new Date(); await alert.save(); emailsSent++.  The save of
\* a document deleted in the meantime rejects, which the same catch takes.
BroadcastSave(p) ==
    /\ req[p].op = "broadcast"
    /\ req[p].pc = "save"
    /\ LET alert == Head(req[p].doc)
           stored == alert.id \in DOMAIN alerts
       IN /\ alerts' = IF stored THEN [alerts EXCEPT ![alert.id].lastSent = now] ELSE alerts
          /\ req' = [req EXCEPT ![p] =
                       IF stored
                       THEN NextAlert(req[p], req[p].body.emailsSent + 1, req[p].body.errors)
                       ELSE NextAlert(req[p], req[p].body.emailsSent,
                                      Pushed(req[p].body.errors, alert, "DocumentNotFoundError"))]
    /\ UNCHANGED <<store, now, community, outbox, nextAlertId, nextInternshipId, nextApplicationId, succeeded>>

\* --------------------------------------------------------- middleware chain
\* A caller without a valid token.
Anonymous == ""

\* user.role of the principal protect loads.
RoleOf(user) == IF user \in Students THEN "intern" ELSE "company"

Unauthenticated == Failure(401, "Not authorized", Null)
RoleForbidden == Failure(403, "Not authorized for this role", Null)

\* protect, authorize(role): NoRes when the caller passes.
Gate(user, role) ==
    IF user = Anonymous THEN Unauthenticated
    ELSE IF RoleOf(user) # role THEN RoleForbidden
    ELSE NoRes

\* authorize('intern') of the apply route, authorize('company') of the create
\* and status routes.
RouteRole(op) == IF op = "apply" THEN "intern" ELSE "company"

\* The routes are registered as
\*   router.<method>(path, [validators, handleValidationErrors], protect, authorize(role), handler)
\* and express runs the middleware in that order.
ChainResult(valid, user, role) == IF ~valid THEN ValidationFailed ELSE Gate(user, role)

\* POST /:id/apply, POST / and PUT /applications/:id/status for a caller the
\* gate turns away: the handler is never reached.  The handlers' actions are
\* the requests of the callers who pass.
Gated(p, op, router, user, valid) ==
    /\ req[p].pc = "idle"
    /\ Gate(user, RouteRole(op)) # NoRes
    /\ req' = [req EXCEPT ![p] =
                 Done([Request(op, router, user, 0) EXCEPT !.body = [valid |-> valid]],
                      ChainResult(valid, user, RouteRole(op)))]
    /\ UNCHANGED <<store, now, community, notifier, nextInternshipId, nextApplicationId, succeeded>>

\* ---------------------------------------------------------------------- auth
\* The two collections of principals, keyed by collection and email (the
\* unique index of each): 'user' is the User model, 'company' the Company model.
Kinds == {"user", "company"}
Emails == {"e1", "e2"}
Passwords == {"secret1", "secret2"}
\* A password shorter than the six characters of isLength({min: 6}).
ShortPassword == "123"

\* bcrypt.hash(password, 12), and a credential stored as it was sent.
Hashed(password) == [hashed |-> TRUE, text |-> password]
Plain(password) == [hashed |-> FALSE, text |-> password]

\* bcrypt.compare(candidate, stored): false for a stored value that is no hash.
Compare(candidate, stored) == stored.hashed /\ stored.text = candidate

\* The pre('save') hook and the comparePassword method a model has.  User.js
\* adds both to the schema before mongoose.model compiles it (User.js:97-108).
\* Company.js compiles the model first (Company.js:79) and adds them to the
\* schema afterwards (Company.js:82-91): the compiled model has neither.
HasCredentialHooks(kind) == kind = "user"

\* What the model stores for the password on create.
StoredPassword(kind, password) ==
    IF HasCredentialHooks(kind) THEN Hashed(password) ELSE Plain(password)

\* The role enum of the User schema; the Company schema has none.
UserRoles == {"intern", "company", "admin"}

\* const { ..., role = 'intern' } = req.body of POST /register; the Company
\* schema's default for POST /register-company, which passes no role.
RegisteredRole(kind, body) ==
    IF kind = "company" THEN "company"
    ELSE IF "role" \in DOMAIN body THEN body.role ELSE "intern"

\* generateToken(user._id)
Token(kind, email) == <<kind, email>>

NewAccount(kind, body) ==
    [kind |-> kind, email |-> body.email, password |-> StoredPassword(kind, body.password),
     role |-> RegisteredRole(kind, body)]

AccountExists(kind) ==
    Json(400, IF kind = "user" THEN "User already exists with this email"
              ELSE "Company already exists with this email", Null)

\* POST /api/auth/register and /register-company up to Model.create.
RegisterFind(p, kind, body) ==
    /\ req[p].pc = "idle"
    /\ Cardinality(DOMAIN accounts) + InFlight("register") < MaxAccounts
    /\ LET r == [Request("register", "auth", body.email, 0) EXCEPT !.body = body, !.status = kind]
       IN req' = [req EXCEPT ![p] =
                    IF body.password = ShortPassword THEN Done(r, ValidationFailed)
                    ELSE IF <<kind, body.email>> \in DOMAIN accounts THEN Done(r, AccountExists(kind))
                    ELSE [r EXCEPT !.pc = "create"]]
    /\ UNCHANGED <<store, now, community, notifier, nextInternshipId, nextApplicationId, succeeded>>

\* Model.create and the 201: the unique index refuses a second document with
\* the email, and the User schema's enum a role outside it.
RegisterCreate(p) ==
    /\ req[p].op = "register"
    /\ req[p].pc = "create"
    /\ LET kind == req[p].status
           account == NewAccount(kind, req[p].body)
           key == <<kind, account.email>>
       IN IF kind = "user" /\ account.role \notin UserRoles
          THEN /\ req' = [req EXCEPT ![p] = Done(req[p], Thrown("ValidationError"))]
               /\ UNCHANGED accounts
          ELSE IF key \in DOMAIN accounts
          THEN /\ req' = [req EXCEPT ![p] = Done(req[p], Thrown("E11000"))]
               /\ UNCHANGED accounts
          ELSE /\ accounts' = Put(accounts, key, account)
               /\ req' = [req EXCEPT ![p] =
                            Done(req[p], Json(201, "", [token |-> Token(kind, account.email),
                                                        email |-> account.email,
                                                        role |-> account.role]))]
    /\ UNCHANGED <<store, now, forum, notifier, nextInternshipId, nextApplicationId, succeeded>>

InvalidCredentials == Json(401, "Invalid credentials", Null)

\* POST /api/auth/login -- the response: userType picks the collection, and
\* user.comparePassword is called on the document found.
LoginResult(coll, userType, email, password) ==
    LET kind == IF userType = "company" THEN "company" ELSE "user"
        key == <<kind, email>>
    IN IF key \notin DOMAIN coll THEN InvalidCredentials
       ELSE IF ~HasCredentialHooks(kind) THEN Thrown("TypeError")
       ELSE IF ~Compare(password, coll[key].password) THEN InvalidCredentials
       ELSE Json(200, "", [token |-> Token(kind, email), email |-> email,
                           role |-> coll[key].role])

Login(p, userType, email, password) ==
    /\ req[p].pc = "idle"
    /\ req' = [req EXCEPT ![p] =
                 Done([Request("login", "auth", email, 0) EXCEPT
                         !.body = [password |-> password], !.status = userType],
                      LoginResult(accounts, userType, email, password))]
    /\ UNCHANGED <<store, now, community, notifier, nextInternshipId, nextApplicationId, succeeded>>

\* --------------------------------------------------------------------- forum
\* req.user.role of the callers of the forum routes.
ForumRole(user) == IF user = Admin THEN "admin" ELSE RoleOf(user)

\* Forum.create({title, content, category, tags, author}): the flags take the
\* schema's defaults.
NewPost(id, author, title) ==
    [id |-> id, author |-> author, title |-> title, isPinned |-> FALSE, isLocked |-> FALSE]

PostNotFound == Json(404, "Post not found", Null)

\* POST /api/forum
ForumCreate(p, user, body) ==
    /\ req[p].pc = "idle"
    /\ nextPostId <= MaxPosts
    /\ ForumRole(user) \in {"intern", "company"}
    /\ LET post == NewPost(nextPostId, user, body.title)
       IN /\ posts' = Put(posts, nextPostId, post)
          /\ nextPostId' = nextPostId + 1
          /\ req' = [req EXCEPT ![p] =
                       Done([Request("post", "forum", user, post.id) EXCEPT !.body = body],
                            Json(201, "Post created successfully", post))]
    /\ UNCHANGED <<store, now, accounts, notifier, nextInternshipId, nextApplicationId, succeeded>>

\* PUT /api/forum/:id and DELETE /api/forum/:id up to the write: the author
\* or an admin may go on.
ForumOwnResult(coll, user, id, what) ==
    IF ~IsValidObjectId(id) THEN Thrown("CastError")
    ELSE IF id \notin DOMAIN coll THEN PostNotFound
    ELSE IF coll[id].author # user /\ ForumRole(user) # "admin"
    THEN Json(403, "Not authorized to " \o what \o " this post", Null)
    ELSE NoRes

ForumUpdateFind(p, user, id, updates) ==
    /\ req[p].pc = "idle"
    /\ LET r == [Request("edit", "forum", user, id) EXCEPT !.body = updates]
           res == ForumOwnResult(posts, user, id, "edit")
       IN req' = [req EXCEPT ![p] = IF res = NoRes THEN [r EXCEPT !.pc = "write"] ELSE Done(r, res)]
    /\ UNCHANGED <<store, now, community, notifier, nextInternshipId, nextApplicationId, succeeded>>

\* Forum.findByIdAndUpdate(id, updates, ...) with updates = req.body: every
\* path of the body is set; the post answered is null when it is gone.
ForumUpdateWrite(p) ==
    /\ req[p].op = "edit"
    /\ req[p].pc = "write"
    /\ LET id == req[p].id
           stored == id \in DOMAIN posts
           new == IF stored THEN ApplyUpdates(posts[id], req[p].body) ELSE Null
       IN /\ posts' = IF stored THEN [posts EXCEPT ![id] = new] ELSE posts
          /\ req' = [req EXCEPT ![p] = Done(req[p], Json(200, "Post updated successfully", new))]
    /\ UNCHANGED <<store, now, accounts, nextPostId, notifier, nextInternshipId,
                   nextApplicationId, succeeded>>

ForumDeleteFind(p, user, id) ==
    /\ req[p].pc = "idle"
    /\ LET r == Request("unpost", "forum", user, id)
           res == ForumOwnResult(posts, user, id, "delete")
       IN req' = [req EXCEPT ![p] = IF res = NoRes THEN [r EXCEPT !.pc = "write"] ELSE Done(r, res)]
    /\ UNCHANGED <<store, now, community, notifier, nextInternshipId, nextApplicationId, succeeded>>

\* Forum.findByIdAndDelete
ForumDeleteWrite(p) ==
    /\ req[p].op = "unpost"
    /\ req[p].pc = "write"
    /\ posts' = Remove(posts, req[p].id)
    /\ req' = [req EXCEPT ![p] = Done(req[p], Json(200, "Post deleted successfully", Null))]
    /\ UNCHANGED <<store, now, accounts, nextPostId, notifier, nextInternshipId,
                   nextApplicationId, succeeded>>

\* PUT /api/forum/:id/pin and /lock, authorize('admin'), up to the save:
\* field is "isPinned" or "isLocked".
ForumToggleFind(p, user, id, field) ==
    /\ req[p].pc = "idle"
    /\ ForumRole(user) = "admin"
    /\ LET r == [Request("toggle", "forum", user, id) EXCEPT !.status = field]
       IN req' = [req EXCEPT ![p] =
                    IF ~IsValidObjectId(id) THEN Done(r, Thrown("CastError"))
                    ELSE IF id \notin DOMAIN posts THEN Done(r, PostNotFound)
                    ELSE [r EXCEPT !.pc = "write", !.doc = posts[id]]]
    /\ UNCHANGED <<store, now, community, notifier, nextInternshipId, nextApplicationId, succeeded>>

\* post.isPinned = !post.isPinned; await post.save(), on the copy loaded.
ForumToggleSave(p) ==
    /\ req[p].op = "toggle"
    /\ req[p].pc = "write"
    /\ LET id == req[p].id
           field == req[p].status
           flag == ~req[p].doc[field]
       IN IF id \in DOMAIN posts
          THEN /\ posts' = [posts EXCEPT ![id][field] = flag]
               /\ req' = [req EXCEPT ![p] = Done(req[p], Json(200, "", [flag |-> flag]))]
          ELSE /\ posts' = posts
               /\ req' = [req EXCEPT ![p] = Done(req[p], Thrown("DocumentNotFoundError"))]
    /\ UNCHANGED <<store, now, accounts, nextPostId, notifier, nextInternshipId,
                   nextApplicationId, succeeded>>

\* ------------------------------------------------------------- specification
\* The lowest free request slot.
FreeSlots == {p \in Procs : req[p].pc = "idle" /\ \A q \in Procs : q < p => req[q].pc # "idle"}

StatusInputs == Statuses \cup {"hired"}
Notes == {Undefined, 1}

\* The requests clients send, drawn from the given input sets.
Delivers == \E p \in Procs : Deliver(p)
Ticks == ~Pending /\ Tick
Uploads == ~Pending /\ \E p \in FreeSlots, s \in Students : UploadResume(p, s)
Creates(ids, caps, deadlines) ==
    /\ ~Pending
    /\ nextInternshipId \in ids
    /\ \E p \in FreeSlots, c \in Companies, m \in caps, d \in deadlines : Create(p, c, m, d)
Posts(ids, companies, bodies) ==
    /\ ~Pending
    /\ nextInternshipId \in ids
    /\ \E p \in FreeSlots, c \in companies, b \in bodies : Post(p, c, b)
Updates(ids, bodies) ==
    ~Pending /\ \E p \in FreeSlots, c \in Companies, id \in ids, u \in bodies : Update(p, c, id, u)
Deletes(ids) ==
    ~Pending /\ \E p \in FreeSlots, c \in Companies, id \in ids : Delete(p, c, id)
GetFinds(routers, ids) ==
    ~Pending /\ \E p \in FreeSlots, r \in routers, id \in ids : GetFind(p, r, id)
GetSaves == ~Pending /\ \E p \in Procs : GetSave(p)
ApplyFinds(routers, ids, letters) ==
    ~Pending /\ \E p \in FreeSlots, r \in routers, s \in Students, id \in ids, cl \in letters :
                   ApplyFind(p, r, s, id, cl)
ApplyChecks == ~Pending /\ \E p \in Procs : ApplyCheck(p)
ApplyCreates == ~Pending /\ \E p \in Procs : ApplyCreate(p)
ApplySaves == ~Pending /\ \E p \in Procs : ApplySave(p)
\* The handlers await document.populate(...), the API of mongoose 6 and
\* later, and mongoose 6 and later strip undefined keys from an update.
OmitUndefined == {TRUE}

StatusUpdates(ids, statuses, notes) ==
    ~Pending /\ \E p \in FreeSlots, c \in Companies, id \in ids, st \in statuses,
                   n \in notes, f \in notes, i \in notes, o \in OmitUndefined :
                   StatusUpdate(p, c, id, st, n, f, i, o)

StatusUpdatesWith(ids, statuses, annotations) ==
    ~Pending /\ \E p \in FreeSlots, c \in Companies, id \in ids, st \in statuses,
                   a \in annotations, o \in OmitUndefined :
                   StatusUpdate(p, c, id, st, a.notes, a.feedback, a.interviewScheduled, o)
UploadsBy(students) == ~Pending /\ \E p \in FreeSlots, s \in students : UploadResume(p, s)
ApplyFindsBy(students, ids) ==
    ~Pending /\ \E p \in FreeSlots, s \in students, id \in ids :
                   ApplyFind(p, "internships", s, id, "dear")
Fetches(callers, ids) ==
    ~Pending /\ \E p \in FreeSlots, u \in callers, id \in ids : FetchApplication(p, u, id)
SearchFinds(queries) == ~Pending /\ \E p \in FreeSlots, q \in queries : SearchFind(p, q)
SearchCounts == ~Pending /\ \E p \in Procs : SearchCount(p)
Featureds == ~Pending /\ \E p \in FreeSlots : Featured(p)

\* A step of the system that is no step of the observed scenario.
NotifyBodies == {[status |-> "accepted"], [message |-> "hello"]}
NotifyFinds(ids, bodies) ==
    ~Pending /\ \E p \in FreeSlots, c \in Companies, id \in ids, b \in bodies :
                   NotifyFind(p, c, id, b)
NotifySends == \E p \in Procs : NotifySend(p)

ContactBodies == {[email |-> "S1", message |-> "hello"], [email |-> "", message |-> "hello"]}
Contacts(bodies) == ~Pending /\ \E p \in FreeSlots, b \in bodies : Contact(p, b)
ContactSupportMails == \E p \in Procs : ContactSupportMail(p)
ContactConfirms == \E p \in Procs : ContactConfirm(p)

AlertBodies ==
    { [internshipTypes |-> {}],
      [internshipTypes |-> {}, frequency |-> "hourly"] }
AlertFinds(students, bodies) ==
    ~Pending /\ \E p \in FreeSlots, s \in students, b \in bodies : AlertFind(p, s, b)
AlertCreates == \E p \in Procs : AlertCreate(p)
AlertDeletes(students, ids) ==
    ~Pending /\ \E p \in FreeSlots, s \in students, id \in ids : AlertDelete(p, s, id)

AlertUpdateBodies ==
    { [isActive |-> FALSE], [isActive |-> TRUE], [frequency |-> "daily"],
      [frequency |-> "hourly"] }
AlertUpdates(students, ids, bodies) ==
    ~Pending /\ \E p \in FreeSlots, s \in students, id \in ids, b \in bodies :
                   AlertUpdate(p, s, id, b)

BroadcastBodies == {Null, [frequency |-> "daily"]}
BroadcastFinds(bodies) == ~Pending /\ \E p \in FreeSlots, b \in bodies : BroadcastFind(p, b)
BroadcastQueries == \E p \in Procs : BroadcastQuery(p)
BroadcastSends == \E p \in Procs : BroadcastSend(p)
BroadcastSaves == \E p \in Procs : BroadcastSave(p)

PostsAt(ids, routers, companies, bodies) ==
    /\ ~Pending
    /\ nextInternshipId \in ids
    /\ \E p \in FreeSlots, r \in routers, c \in companies, b \in bodies : PostAt(p, r, c, b)

\* The list fields clients send: every string of up to MaxLen characters and
\* "a, b, c"; every array of up to MaxItems entries.
Chars == {"a", Comma, Space}
Strings == UNION {[1..n -> Chars] : n \in 0..MaxLen} \cup {<<"a", ",", " ", "b", ",", " ", "c">>}
Entries == {<<>>, <<"a">>, <<"a", Space>>}
Arrays == UNION {[1..n -> Entries] : n \in 0..MaxItems}
ListInputs == {Absent} \cup {StringOf(x) : x \in Strings} \cup {ArrayOf(x) : x \in Arrays}

GatedRoutes == {[op |-> "apply", router |-> "internships"],
                [op |-> "create", router |-> "internships"],
                [op |-> "status", router |-> "companies"]}
Gateds(callers) ==
    ~Pending /\ \E p \in FreeSlots, r \in GatedRoutes, u \in callers, v \in BOOLEAN :
                   Gated(p, r.op, r.router, u, v)

RegisterBodies ==
    {[email |-> e, password |-> pw] : e \in Emails, pw \in Passwords \cup {ShortPassword}}
    \cup {[email |-> "e1", password |-> "secret1", role |-> r] : r \in UserRoles \cup {"owner"}}
RegisterFinds(bodies) ==
    ~Pending /\ \E p \in FreeSlots, k \in Kinds, b \in bodies : RegisterFind(p, k, b)
RegisterCreates == \E p \in Procs : RegisterCreate(p)
Logins ==
    ~Pending /\ \E p \in FreeSlots, k \in Kinds, e \in Emails, pw \in Passwords : Login(p, k, e, pw)

ForumBodies == {[title |-> "t"], [title |-> "t", isPinned |-> TRUE], [isLocked |-> TRUE]}
ForumCreates(callers, bodies) ==
    ~Pending /\ \E p \in FreeSlots, u \in callers, b \in bodies : ForumCreate(p, u, b)
ForumUpdateFinds(callers, ids, bodies) ==
    ~Pending /\ \E p \in FreeSlots, u \in callers, id \in ids, b \in bodies :
                   ForumUpdateFind(p, u, id, b)
ForumUpdateWrites == \E p \in Procs : ForumUpdateWrite(p)
ForumDeleteFinds(callers, ids) ==
    ~Pending /\ \E p \in FreeSlots, u \in callers, id \in ids : ForumDeleteFind(p, u, id)
ForumDeleteWrites == \E p \in Procs : ForumDeleteWrite(p)
ForumToggleFinds(callers, ids) ==
    ~Pending /\ \E p \in FreeSlots, u \in callers, id \in ids, f \in {"isPinned", "isLocked"} :
                   ForumToggleFind(p, u, id, f)
ForumToggleSaves == \E p \in Procs : ForumToggleSave(p)

Quiet(A) == A /\ UNCHANGED scenario

\* Every operation, every input.
Next ==
    \/ Quiet(Delivers)
    \/ Quiet(Ticks)
    \/ Quiet(Uploads)
    \/ Quiet(Creates(ValidIds, CreateCaps, Deadlines \cup {InvalidDate}))
    \/ Quiet(Updates(RequestIds, UpdateBodies))
    \/ Quiet(Deletes(RequestIds))
    \/ Quiet(GetFinds(Routers, RequestIds))
    \/ Quiet(GetSaves)
    \/ Quiet(ApplyFinds(Routers, RequestIds, CoverLetters))
    \/ Quiet(ApplyChecks)
    \/ Quiet(ApplyCreates)
    \/ Quiet(ApplySaves)
    \/ Quiet(StatusUpdates(RequestIds, StatusInputs, Notes))

Spec == Init /\ [][Next]_vars

\* Concurrent applications against internships nobody edits.
NextRace ==
    \/ Quiet(Delivers)
    \/ Quiet(Ticks)
    \/ Quiet(Uploads)
    \/ Quiet(Creates({1}, {1}, Deadlines))
    \/ Quiet(ApplyFinds({"internships"}, {1}, {"dear"}))
    \/ Quiet(ApplyChecks)
    \/ Quiet(ApplyCreates)
    \/ Quiet(ApplySaves)

SpecRace == Init /\ [][NextRace]_vars

\* Concurrent applications against one internship that its owner, or anyone
\* else, may edit or delete meanwhile.
LedgerBodies ==
    { [isActive |-> FALSE],
      [maxApplications |-> 0],
      [currentApplications |-> 2],
      [applicationDeadline |-> InvalidDate] }

\* A malformed id, the internship, an id of no document.
LedgerIds == {InvalidId, 1, 2}

NextLedger ==
    \/ Quiet(Delivers)
    \/ Quiet(Ticks)
    \/ Quiet(Uploads)
    \/ Quiet(Creates({1}, {1}, Deadlines \cup {InvalidDate}))
    \/ Quiet(Updates(LedgerIds, LedgerBodies))
    \/ Quiet(Deletes(LedgerIds))
    \/ Quiet(ApplyFinds(Routers, LedgerIds, CoverLetters))
    \/ Quiet(ApplyChecks)
    \/ Quiet(ApplyCreates)
    \/ Quiet(ApplySaves)

SpecLedger == Init /\ [][NextLedger]_vars

\* Concurrent fetches of internships that their owners may edit or delete
\* meanwhile.
CatalogBodies == {[isActive |-> FALSE], [maxApplications |-> 0]}

NextCatalog ==
    \/ Quiet(Delivers)
    \/ Quiet(Creates(1..MaxInternships, CreateCaps, {0}))
    \/ Quiet(Updates(ValidIds, CatalogBodies))
    \/ Quiet(Deletes(ValidIds))
    \/ Quiet(GetFinds(Routers, RequestIds))
    \/ Quiet(GetSaves)

SpecCatalog == Init /\ [][NextCatalog]_vars

\* One search at a time over a catalog that company A fills and edits
\* meanwhile.
SearchPosts ==
    [maxApplications : {Undefined}, applicationDeadline : {0}, internshipType : {"remote", "hybrid"}]

SearchBodies == {[isActive |-> FALSE], [isFeatured |-> TRUE]}

Queries ==
    [internshipType : {"", "remote"}, page : 0..2, limit : 0..2,
     sort : {"createdAt"}, order : {"asc", "desc"}]
    \cup [internshipType : {"", "remote"}, page : 0..2, limit : 0..2,
          sort : {"views"}, order : {"desc"}]

NoneInFlight == \A p \in Procs : req[p].pc = "idle"

NextSearch ==
    \/ Quiet(Delivers)
    \/ Quiet(Posts(1..MaxListed, {"A"}, SearchPosts))
    \/ Quiet(Updates(1..MaxListed, SearchBodies))
    \/ Quiet(NoneInFlight /\ SearchFinds(Queries))
    \/ Quiet(SearchCounts)
    \/ Quiet(NoneInFlight /\ Featureds)

SpecSearch == Init /\ [][NextSearch]_vars

\* Applications of S1 to one internship whose owner hands it to another
\* company, or to none, and the callers who fetch them.
AccessBodies == {[company |-> "B"], [company |-> NoCompany]}

NextAccess ==
    \/ Quiet(Delivers)
    \/ Quiet(UploadsBy({"S1"}))
    \/ Quiet(Creates({1}, {1}, {MaxTime}))
    \/ Quiet(Updates({1}, AccessBodies))
    \/ Quiet(Deletes({1}))
    \/ Quiet(ApplyFindsBy({"S1"}, {1}))
    \/ Quiet(ApplyChecks)
    \/ Quiet(ApplyCreates)
    \/ Quiet(ApplySaves)
    \/ Quiet(Fetches(Students \cup Companies, RequestIds))

SpecAccess == Init /\ [][NextAccess]_vars

\* The applications of S1 to one internship, under review by the companies,
\* while the internship may be handed over or deleted.
ReviewBodies == {[company |-> "B"]}

Annotations ==
    { [notes |-> Undefined, feedback |-> Undefined, interviewScheduled |-> Undefined],
      [notes |-> 1, feedback |-> Undefined, interviewScheduled |-> 1],
      [notes |-> Undefined, feedback |-> 1, interviewScheduled |-> Undefined] }

NextReview ==
    \/ Quiet(Delivers)
    \/ Quiet(Ticks)
    \/ Quiet(UploadsBy({"S1"}))
    \/ Quiet(Creates({1}, {1}, {MaxTime}))
    \/ Quiet(Updates({1}, ReviewBodies))
    \/ Quiet(Deletes({1}))
    \/ Quiet(ApplyFindsBy({"S1"}, {1}))
    \/ Quiet(ApplyChecks)
    \/ Quiet(ApplyCreates)
    \/ Quiet(ApplySaves)
    \/ Quiet(Fetches(Students, {1}))
    \/ Quiet(StatusUpdatesWith(ValidIds, StatusInputs, Annotations))

SpecReview == Init /\ [][NextReview]_vars

NoAnnotations ==
    {[notes |-> Undefined, feedback |-> Undefined, interviewScheduled |-> Undefined]}

\* The application of S1 under review, and the notifications the companies
\* ask for.
NextNotify ==
    \/ Quiet(Delivers)
    \/ Quiet(UploadsBy({"S1"}))
    \/ Quiet(Creates({1}, {1}, {MaxTime}))
    \/ Quiet(Updates({1}, AccessBodies))
    \/ Quiet(ApplyFindsBy({"S1"}, {1}))
    \/ Quiet(ApplyChecks)
    \/ Quiet(ApplyCreates)
    \/ Quiet(ApplySaves)
    \/ Quiet(StatusUpdatesWith(ValidIds, {"accepted", "pending"}, NoAnnotations))
    \/ Quiet(NotifyFinds(RequestIds, NotifyBodies))
    \/ Quiet(NotifySends)

SpecNotify == Init /\ [][NextNotify]_vars

\* The three endpoints that send mail: the status notification for the
\* application of S1, the contact form, and the alerts of S1 sent out by the
\* administrator.  Only the alert requests of S1 arrive while another request
\* is being handled.
NextMail ==
    \/ Quiet(Delivers)
    \/ Quiet(NoneInFlight /\ UploadsBy({"S1"}))
    \/ Quiet(NoneInFlight /\ Creates({1}, {1}, {MaxTime}))
    \/ Quiet(NoneInFlight /\ ApplyFindsBy({"S1"}, {1}))
    \/ Quiet(ApplyChecks)
    \/ Quiet(ApplyCreates)
    \/ Quiet(ApplySaves)
    \/ Quiet(NoneInFlight /\ NotifyFinds({1}, NotifyBodies))
    \/ Quiet(NotifySends)
    \/ Quiet(NoneInFlight /\ Contacts(ContactBodies))
    \/ Quiet(ContactSupportMails)
    \/ Quiet(ContactConfirms)
    \/ Quiet(AlertFinds({"S1"}, AlertBodies))
    \/ Quiet(AlertCreates)
    \/ Quiet(AlertDeletes({"S1"}, {1}))
    \/ Quiet(NoneInFlight /\ BroadcastFinds(BroadcastBodies))
    \/ Quiet(BroadcastQueries)
    \/ Quiet(BroadcastSends)
    \/ Quiet(BroadcastSaves)

SpecMail == Init /\ [][NextMail]_vars

\* One internship of company A, created through either router with its list
\* field in every shape, then updated by the companies and fetched.
ListPostBodies ==
    {[maxApplications |-> Undefined, applicationDeadline |-> MaxTime,
      internshipType |-> "remote", skills |-> x] : x \in ListInputs}
    \cup {[maxApplications |-> Undefined, applicationDeadline |-> MaxTime,
           internshipType |-> "remote"]}
ListUpdateBodies == {[skills |-> x] : x \in ListInputs} \cup {[isActive |-> TRUE]}

NextLists ==
    \/ Quiet(Delivers)
    \/ Quiet(NoneInFlight /\ PostsAt({1}, {"internships", "companies"}, {"A"}, ListPostBodies))
    \/ Quiet(NoneInFlight /\ Updates({1}, ListUpdateBodies))
    \/ Quiet(NoneInFlight /\ GetFinds({"internships"}, {1}))
    \/ Quiet(GetSaves)

SpecLists == Init /\ [][NextLists]_vars

\* The protected routes, called with and without a token, by students and by
\* companies, with valid and with invalid bodies.
NextGate ==
    \/ Quiet(Delivers)
    \/ Quiet(UploadsBy({"S1"}))
    \/ Quiet(Creates({1}, {1}, {MaxTime}))
    \/ Quiet(ApplyFinds({"internships"}, {1}, CoverLetters))
    \/ Quiet(ApplyChecks)
    \/ Quiet(ApplyCreates)
    \/ Quiet(ApplySaves)
    \/ Quiet(StatusUpdatesWith({1}, {"accepted", "hired"}, NoAnnotations))
    \/ Quiet(Gateds({Anonymous} \cup Students \cup Companies))

SpecGate == Init /\ [][NextGate]_vars

\* Registrations of students and companies, and logins.
NextAuth ==
    \/ Quiet(Delivers)
    \/ Quiet(RegisterFinds(RegisterBodies))
    \/ Quiet(RegisterCreates)
    \/ Quiet(Logins)

SpecAuth == Init /\ [][NextAuth]_vars

\* The alerts of the students, created, updated and deleted one request
\* after another or concurrently.
NextAlerts ==
    \/ Quiet(Delivers)
    \/ Quiet(AlertFinds(Students, AlertBodies))
    \/ Quiet(AlertCreates)
    \/ Quiet(AlertUpdates(Students, RequestIds, AlertUpdateBodies))
    \/ Quiet(AlertDeletes(Students, RequestIds))

SpecAlerts == Init /\ [][NextAlerts]_vars

\* The alerts of the students, edited and deleted by them while the
\* administrator sends them out.
BroadcastUpdateBodies == {[user |-> NoUser], [isActive |-> FALSE]}

NextBroadcast ==
    \/ Quiet(Delivers)
    \/ Quiet(NoneInFlight /\ Creates({1}, {1}, {MaxTime}))
    \/ Quiet(NoneInFlight /\ AlertFinds(Students, {[internshipTypes |-> {}]}))
    \/ Quiet(AlertCreates)
    \/ Quiet(AlertUpdates(Students, {1}, BroadcastUpdateBodies))
    \/ Quiet(AlertDeletes(Students, {2}))
    \/ Quiet(NoneInFlight /\ BroadcastFinds({Null}))
    \/ Quiet(BroadcastQueries)
    \/ Quiet(BroadcastSends)
    \/ Quiet(BroadcastSaves)

SpecBroadcast == Init /\ [][NextBroadcast]_vars

\* One forum post of S1, edited and deleted by the students and the
\* administrator, pinned and locked by the administrator.
NextForum ==
    \/ Quiet(Delivers)
    \/ Quiet(ForumCreates({"S1"}, {[title |-> "t"], [title |-> "t", isPinned |-> TRUE]}))
    \/ Quiet(ForumUpdateFinds(Students \cup {Admin}, RequestIds, ForumBodies))
    \/ Quiet(ForumUpdateWrites)
    \/ Quiet(ForumDeleteFinds(Students \cup {Admin}, {1}))
    \/ Quiet(ForumDeleteWrites)
    \/ Quiet(ForumToggleFinds({Admin}, RequestIds))
    \/ Quiet(ForumToggleSaves)

SpecForum == Init /\ [][NextForum]_vars

\* ------------------------------------------------------ end-to-end scenario
\* The scenario: company A creates internship O with maxApplications = 1;
\* S1 applies; S1 applies again; S2 applies; A accepts the application;
\* B tries the same status update.  `scenario` counts the steps done so far:
\* it advances when the request that completes is the next one of the
\* scenario, whatever its response, and starts over on any other request.
Completes(p) == req[p].pc # "done" /\ req'[p].pc = "done"

ScenarioInternship == nextInternshipId - 1
ScenarioApplication == nextApplicationId - 1

\* The apply request completing in slot p was checked before the deadline.
BeforeDeadline(p) ==
    req[p].pc = "idle" =>
        /\ ScenarioInternship \in DOMAIN internships
        /\ now <= internships[ScenarioInternship].applicationDeadline

EligibleApply(p, s) ==
    /\ req'[p].op = "apply"
    /\ req'[p].user = s
    /\ req'[p].id = ScenarioInternship
    /\ req'[p].coverLetter # ""
    /\ BeforeDeadline(p)

AcceptBy(p, c) ==
    /\ req'[p].op = "status"
    /\ req'[p].user = c
    /\ req'[p].id = ScenarioApplication
    /\ req'[p].status = "accepted"

\* The request completing in slot p is step k + 1 of the scenario.
Expected(k, p) ==
    CASE k = 0 -> /\ req'[p].op = "create"
                  /\ req'[p].user = "A"
                  /\ req'[p].res.status = 201
                  /\ req'[p].res.body.maxApplications = 1
      [] k = 1 -> EligibleApply(p, "S1") /\ req'[p].resume # ""
      [] k = 2 -> EligibleApply(p, "S1")
      [] k = 3 -> EligibleApply(p, "S2") /\ req'[p].resume # ""
      [] k = 4 -> AcceptBy(p, "A")
      [] k = 5 -> AcceptBy(p, "B")
      [] OTHER -> FALSE

ObservedScenario ==
    IF \E p \in Procs : Completes(p)
    THEN LET p == CHOOSE q \in Procs : Completes(q)
         IN IF Expected(scenario, p) THEN scenario + 1
            ELSE IF Expected(0, p) THEN 1
            ELSE 0
    ELSE scenario

Observed(A) == A /\ scenario' = ObservedScenario

\* One request at a time: a request starts when no other is in flight.
SeqBodies == {[isActive |-> FALSE]}
SeqStatuses == {"accepted", "hired"}
SeqIds == 1..MaxInternships

NextSeq ==
    \/ Observed(Delivers)
    \/ Observed(Ticks)
    \/ Observed(NoneInFlight /\ Uploads)
    \/ Observed(NoneInFlight /\ Creates(1..MaxInternships, {1}, Deadlines))
    \/ Observed(NoneInFlight /\ Updates(SeqIds, SeqBodies))
    \/ Observed(NoneInFlight /\ Deletes(SeqIds))
    \/ Observed(NoneInFlight /\ ApplyFinds({"internships"}, SeqIds, CoverLetters))
    \/ Observed(ApplyChecks)
    \/ Observed(ApplyCreates)
    \/ Observed(ApplySaves)
    \/ Observed(NoneInFlight /\ StatusUpdates(SeqIds, SeqStatuses, {Undefined}))

SpecSeq == Init /\ [][NextSeq]_vars

\* -------------------------------------------------------------------- claims
ApplicationsFor(i) == {a \in DOMAIN applications : applications[a].internship = i}

\* C1: with N > M distinct students applying concurrently to an internship of
\* cap M, at most M apply requests are answered 201 and at most M applications
\* are stored for it.
C1_CapHoldsUnderConcurrency ==
    \A i \in DOMAIN internships :
        /\ succeeded.apply[i] <= internships[i].maxApplications
        /\ Cardinality(ApplicationsFor(i)) <= internships[i].maxApplications

\* C2: every internship satisfies currentApplications <= maxApplications in
\* every reachable state.
C2_CounterWithinCap ==
    \A i \in DOMAIN internships :
        internships[i].currentApplications <= internships[i].maxApplications

UniquePairs ==
    \A a, b \in DOMAIN applications :
        (/\ applications[a].internship = applications[b].internship
         /\ applications[a].applicant = applications[b].applicant) => a = b

\* An application of the caller for the internship of the request in slot p,
\* other than the one this request created.
HasApplied(p) == ExistingApplication(req'[p].id, req'[p].user) \ {req[p].app} # {}

\* C3 as stated: at most one application per (internship, student), and an
\* apply request of a student who has an application for that internship,
\* at the start of the request or at its duplicate lookup, is answered with
\* the 400 "already applied".
C3_SecondApplyIsAlreadyApplied ==
    /\ []UniquePairs
    /\ [][\A p \in Procs :
            (/\ Completes(p)
             /\ req'[p].op = "apply"
             /\ req[p].pc \in {"idle", "check"}
             /\ HasApplied(p)) => req'[p].res = AlreadyApplied]_vars

\* C3 amended: at most one application per (internship, student); an apply
\* request of a student who has one never succeeds and stores nothing; it is
\* answered with the 400 "already applied" when it reaches the duplicate
\* lookup (the checks before the lookup report their own failures), and
\* Application.create rejects it (the duplicate-key error of the unique
\* index, or the schema's validation error for a missing resume) when the
\* application was stored after the lookup.
C3_SecondApplyNeverSucceeds ==
    /\ []UniquePairs
    /\ [][\A p \in Procs :
            (/\ Completes(p)
             /\ req'[p].op = "apply"
             /\ HasApplied(p)) =>
                /\ req'[p].res.status # 201
                /\ applications' = applications
                /\ req[p].pc = "check" => req'[p].res = AlreadyApplied
                /\ req[p].pc = "create" =>
                       req'[p].res \in {Thrown("E11000 duplicate key"), Thrown("ValidationError")}
                /\ req[p].pc # "save"]_vars

\* C3 witness: a student with an application applied again and was told so.
C3_Witness ==
    \E p \in Procs :
        /\ req[p].pc = "done"
        /\ req[p].op = "apply"
        /\ req[p].res = AlreadyApplied
        /\ Cardinality(ExistingApplication(req[p].id, req[p].user)) = 1

\* The step on which slot p takes an apply request and loads the internship.
AppliesAt(p) == req[p].pc = "idle" /\ req'[p].op = "apply"

\* The step on which the apply request in slot p does its duplicate lookup.
ChecksAt(p) == req[p].op = "apply" /\ req[p].pc = "check" /\ req'[p] # req[p]

\* The step on which the apply request in slot p calls Application.create.
CreatesAt(p) == req[p].op = "apply" /\ req[p].pc = "create" /\ req'[p] # req[p]

\* C4: a well-formed apply request is checked in the order (1) the internship
\* exists and is active, (2) the deadline has not passed, (3) the caller has
\* no application for it, (4) currentApplications < maxApplications, (5) the
\* caller has a resume; the first check that fails decides the response, and
\* the five failures differ.  (1), (2) and (4) are judged on the internship
\* as loaded, (5) on the caller as loaded, (3) on the ledger at the lookup.
\* In the alerts.js copy (5) is the schema's validation at create.
C4_ChecksInOrder ==
    [][\A p \in Procs :
        /\ AppliesAt(p) /\ req'[p].coverLetter # "" /\ IsValidObjectId(req'[p].id) =>
             LET r == req'[p]
                 i == r.id
             IN /\ r.resume = users[r.user].resume
                /\ IF i \notin DOMAIN internships \/ ~internships[i].isActive
                   THEN r.pc = "done" /\ r.res = NotAvailable
                   ELSE IF now > internships[i].applicationDeadline
                   THEN r.pc = "done" /\ r.res = DeadlinePassed
                   ELSE r.pc = "check" /\ r.doc = internships[i]
        /\ ChecksAt(p) =>
             LET r == req'[p]
             IN IF ExistingApplication(r.id, r.user) # {}
                THEN r.pc = "done" /\ r.res = AlreadyApplied
                ELSE IF r.doc.currentApplications >= r.doc.maxApplications
                THEN r.pc = "done" /\ r.res = MaxReached
                ELSE IF r.resume = "" /\ r.router = "internships"
                THEN r.pc = "done" /\ r.res = ResumeRequired
                ELSE r.pc = "create"
        /\ CreatesAt(p) /\ req[p].resume = "" =>
             req'[p].pc = "done" /\ req'[p].res = Thrown("ValidationError")
        /\ Cardinality({NotAvailable, DeadlinePassed, AlreadyApplied, MaxReached,
                        ResumeRequired, Thrown("ValidationError")}) = 6]_vars

\* C4 witness: an apply after the deadline was answered with the deadline
\* failure although the internship was full and the caller had applied.
C4_Witness ==
    \E p \in Procs :
        /\ req[p].pc = "done"
        /\ req[p].op = "apply"
        /\ req[p].res = DeadlinePassed
        /\ req[p].id \in DOMAIN internships
        /\ internships[req[p].id].currentApplications >= internships[req[p].id].maxApplications
        /\ ExistingApplication(req[p].id, req[p].user) # {}

\* C5: an apply request answered 201 has stored exactly one application of
\* the caller for the internship (pending, the internship's owner as company,
\* the cover letter and the resume reference of the request), and its last
\* step raises the internship's currentApplications by exactly 1 and changes
\* no other internship and no application.
C5_SuccessfulApplyEffect ==
    [][\A p \in Procs :
        (Completes(p) /\ req'[p].op = "apply" /\ req'[p].res.status = 201) =>
            LET r == req'[p]
                i == r.id
                application == applications[r.app]
            IN /\ ExistingApplication(i, r.user) = {r.app}
               /\ application.status = "pending"
               /\ application.applicant = r.user
               /\ application.company = internships[i].company
               /\ application.coverLetter = r.coverLetter
               /\ application.resume = r.resume
               /\ r.res.body = application
               /\ internships' = [internships EXCEPT ![i].currentApplications = @ + 1]
               /\ applications' = applications]_vars

\* C6: a created internship starts with currentApplications = 0, and the
\* counter changes only on the step of an apply request answered 201 for that
\* internship, and never decreases.
C6_CounterOnlyByApply ==
    [][/\ \A i \in DOMAIN internships' \ DOMAIN internships :
              internships'[i].currentApplications = 0
       /\ \A i \in DOMAIN internships' \cap DOMAIN internships :
              internships'[i].currentApplications # internships[i].currentApplications =>
                  /\ internships'[i].currentApplications > internships[i].currentApplications
                  /\ \E p \in Procs :
                         /\ Completes(p)
                         /\ req'[p].op = "apply"
                         /\ req'[p].id = i
                         /\ req'[p].res.status = 201]_vars

\* What the scenario says of the response to its step k + 1, completing in
\* slot p.
Outcome(k, p) ==
    LET r == req'[p]
    IN CASE k = 1 -> r.res.status = 201 /\ r.res.body.status = "pending"
         [] k = 2 -> r.res = AlreadyApplied
         [] k = 3 -> r.res = MaxReached
         [] k = 4 -> /\ r.res.status = 200
                     /\ r.res.body.status = "accepted"
                     /\ r.res.body.reviewedAt # NoDate
                     /\ applications'[r.id] = r.res.body
         [] k = 5 -> /\ r.res.status \in {403, 404}
                     /\ applications' = applications
         [] OTHER -> TRUE

\* C7: requests handled one at a time; whenever the steps of the scenario
\* follow one another, each is answered as the scenario says: 201 pending,
\* 400 already applied, 400 maximum applications, accepted with reviewedAt
\* set, and 403/404 with the application unchanged for the other company.
C7_Scenario ==
    [][\A p \in Procs :
        (Completes(p) /\ Expected(scenario, p)) => Outcome(scenario, p)]_vars

\* C7 witness: the six steps of the scenario have been taken in a row.
C7_Witness == scenario = 6


\* The body of an update request passes the route's validators.
PassesValidation(updates) ==
    ~("applicationDeadline" \in DOMAIN updates /\ updates.applicationDeadline = InvalidDate)

\* The response to the update or delete request r had the internship of its
\* id not been stored at all.
ResponseIfMissing(r) ==
    IF r.op = "update"
    THEN UpdateResult(Remove(internships, r.id), r.user, r.id, r.body).res
    ELSE DeleteResult(Remove(internships, r.id), r.user, r.id).res

\* C8: an update or delete request that passes validation, for an id of no
\* internship or of an internship of another company, is answered with the
\* 404 "Internship not found", which is also the response it would get were
\* the internship not stored at all, and it leaves the catalog unchanged.
C8_NonOwnerSameAsMissing ==
    [][\A p \in Procs :
        (/\ Completes(p)
         /\ req'[p].op \in {"update", "delete"}
         /\ IsValidObjectId(req'[p].id)
         /\ PassesValidation(req'[p].body)
         /\ (req'[p].id \in DOMAIN internships =>
                internships[req'[p].id].company # req'[p].user)) =>
            /\ req'[p].res = NotFound
            /\ req'[p].res = ResponseIfMissing(req'[p])
            /\ internships' = internships]_vars

\* C8 witness: a company was answered NotFound for the internship of another
\* company, which is stored.
C8_Witness ==
    \E p \in Procs :
        /\ req[p].pc = "done"
        /\ req[p].op \in {"update", "delete"}
        /\ req[p].res = NotFound
        /\ req[p].id \in DOMAIN internships
        /\ internships[req[p].id].company # req[p].user

\* C9: once the fetches of an internship have completed, in whatever order
\* their load and save steps were taken, its views equal the number of
\* fetches answered with it.
C9_ViewsCountFetches ==
    \A i \in DOMAIN internships :
        (\A p \in Procs : ~(req[p].op = "get" /\ req[p].pc = "save" /\ req[p].id = i)) =>
            internships[i].views = succeeded.get[i]

\* The step on which slot p takes a fetch of an id that is malformed or is
\* the id of no internship.
FetchesAbsent(p) ==
    /\ req[p].pc = "idle"
    /\ req'[p].op = "get"
    /\ ~IsValidObjectId(req'[p].id) \/ req'[p].id \notin DOMAIN internships

\* C10 as stated: a fetch of an id that is malformed or is the id of no
\* internship is answered with the 404 "Internship not found" and changes no
\* view counter.
C10_AbsentOrInvalidIsNotFound ==
    [][\A p \in Procs :
        FetchesAbsent(p) =>
            /\ req'[p].pc = "done"
            /\ req'[p].res = NotFound
            /\ internships' = internships]_vars

\* C10 amended: a fetch of a well-formed id of no internship is answered
\* with the 404 "Internship not found"; a fetch of a malformed id is
\* answered with the 400 "Invalid internship ID format", and in the alerts.js
\* copy of the handler findById throws a CastError; none of them changes a
\* view counter.
C10_AbsentIsNotFoundInvalidIsRejected ==
    [][\A p \in Procs :
        FetchesAbsent(p) =>
            /\ req'[p].pc = "done"
            /\ req'[p].res =
                   IF IsValidObjectId(req'[p].id) THEN NotFound
                   ELSE IF req'[p].router = "internships" THEN InvalidIdFormat
                   ELSE Thrown("CastError")
            /\ internships' = internships]_vars

\* C10 witness: a fetch of a malformed id was answered with the 400 while an
\* internship that has been viewed is stored.
C10_Witness ==
    \E p \in Procs :
        /\ req[p].pc = "done"
        /\ req[p].op = "get"
        /\ req[p].res = InvalidIdFormat
        /\ \E i \in DOMAIN internships : internships[i].views > 0

\* C11: the documents a search or the featured listing finds are stored
\* internships with isActive = true at the time of the find, for every query;
\* the response carries these and no other; no step of a search or of the
\* featured listing changes a collection.
C11_SearchReturnsOnlyActive ==
    [][\A p \in Procs :
        (req'[p] # req[p] /\ req'[p].op \in {"search", "featured"}) =>
            /\ store' = store
            /\ req[p].pc = "idle" =>
                   LET found == IF req'[p].pc = "count" THEN req'[p].doc
                                ELSE IF req'[p].res.status = 200
                                THEN req'[p].res.body.internships
                                ELSE <<>>
                   IN \A k \in DOMAIN found :
                          /\ found[k].id \in DOMAIN internships
                          /\ found[k] = internships[found[k].id]
                          /\ found[k].isActive
            /\ req[p].pc = "count" =>
                   /\ req'[p].res.body.internships = req[p].doc
                   /\ \A k \in DOMAIN req[p].doc : req[p].doc[k].isActive]_vars

\* C11 witness: a search answered with an internship while an inactive
\* internship that meets its filters is stored.
C11_Witness ==
    \E p \in Procs :
        /\ req[p].pc = "done"
        /\ req[p].op = "search"
        /\ req[p].res.status = 200
        /\ req[p].res.body.internships # <<>>
        /\ \E i \in DOMAIN internships :
               /\ ~internships[i].isActive
               /\ MatchesFiltersOnly(internships[i], req[p].body)

\* The step on which slot p runs the find of a search.
FindsAt(p) == req[p].pc = "idle" /\ req'[p].op = "search" /\ req'[p].pc = "count"

\* The step on which slot p counts and answers a search.
CountsAt(p) == req[p].op = "search" /\ req[p].pc = "count" /\ req'[p] # req[p]

\* C12: a search of page >= 1 finds a page of at most limit records, those
\* from offset (page - 1) * limit of the active records matching the filters,
\* and reports total = the number of active matching records and
\* pages = ceil(total / limit), the least n with n * limit >= total; with
\* total = 0 it reports pages = 0 and success.
C12_Pagination ==
    [][\A p \in Procs :
        /\ (FindsAt(p) /\ req'[p].body.page >= 1) =>
               LET q == req'[p].body
                   rest == Cardinality(Matching(internships, q)) - (q.page - 1) * q.limit
                   most == IF rest < 0 THEN 0 ELSE rest
               IN /\ Len(req'[p].doc) <= q.limit
                  /\ Len(req'[p].doc) = IF most < q.limit THEN most ELSE q.limit
        /\ (CountsAt(p) /\ req[p].body.page >= 1) =>
               LET q == req[p].body
                   body == req'[p].res.body
               IN /\ req'[p].res.status = 200
                  /\ body.internships = req[p].doc
                  /\ body.count = Len(req[p].doc)
                  /\ body.total = Cardinality(Matching(internships, q))
                  /\ body.pages \in Nat
                  /\ body.pages * q.limit >= body.total
                  /\ body.pages > 0 => (body.pages - 1) * q.limit < body.total
                  /\ body.total = 0 => body.pages = 0]_vars

\* C13: a fetch of a stored application is answered with it when the caller
\* is its applicant or the company it records, with the 403 for any other
\* student or company, and changes no collection.
C13_OnlyApplicantOrCompany ==
    [][\A p \in Procs :
        (Completes(p) /\ req'[p].op = "application" /\ req'[p].id \in DOMAIN applications) =>
            LET r == req'[p]
                application == applications[r.id]
            IN /\ store' = store
               /\ IF r.user \in {application.applicant, application.company}
                  THEN r.res = Json(200, "", application)
                  ELSE r.res = Forbidden]_vars

\* The fields of an application that a review annotates.
ReviewFields == {"status", "notes", "feedback", "interviewScheduled", "reviewedAt"}

\* The request completing in slot p is a status update of application a that
\* passed validation.
StatusUpdateOf(p, a) ==
    /\ Completes(p)
    /\ req'[p].op = "status"
    /\ req'[p].id = a
    /\ req'[p].status \in Statuses

\* C14: a stored application is never removed; it changes only on the step
\* of a status update by the company it records, and then only in status,
\* notes, feedback, interviewScheduled and reviewedAt; a status update by
\* another company that passed validation is answered with the 404
\* "Application not found" and changes nothing.
C14_OnlyOwnerReviews ==
    [][\A a \in DOMAIN applications :
        /\ a \in DOMAIN applications'
        /\ applications'[a] # applications[a] =>
               /\ \E p \in Procs :
                      /\ StatusUpdateOf(p, a)
                      /\ req'[p].user = applications[a].company
                      /\ req'[p].res = Json(200, "", applications'[a])
               /\ \A f \in DOMAIN applications[a] \ ReviewFields :
                      applications'[a][f] = applications[a][f]
        /\ \A p \in Procs :
               (StatusUpdateOf(p, a) /\ req'[p].user # applications[a].company) =>
                   /\ req'[p].res = Json(404, "Application not found", Null)
                   /\ applications' = applications]_vars

\* C14 witness: another company's status update was answered 404 for an
\* application that its company had reviewed and whose internship is deleted.
C14_Witness ==
    \E p \in Procs :
        /\ req[p].pc = "done"
        /\ req[p].op = "status"
        /\ req[p].res.status = 404
        /\ req[p].id \in DOMAIN applications
        /\ applications[req[p].id].company # req[p].user
        /\ applications[req[p].id].status # "pending"
        /\ applications[req[p].id].internship \notin DOMAIN internships

\* C15: a status update that succeeds stores reviewedAt = now when the new
\* status is not pending, and leaves reviewedAt as it was when the new status
\* is pending.
C15_ReviewedAt ==
    [][\A p \in Procs : \A a \in DOMAIN applications :
        (StatusUpdateOf(p, a) /\ req'[p].res.status = 200) =>
            /\ applications'[a].status = req'[p].status
            /\ applications'[a].reviewedAt =
                   IF req'[p].status # "pending" THEN now ELSE applications[a].reviewedAt
            /\ req'[p].res.body = applications'[a]]_vars

\* C15 witness: an application reviewed at an earlier time was set back to
\* pending and kept its reviewedAt.
C15_Witness ==
    \E p \in Procs :
        /\ req[p].pc = "done"
        /\ req[p].op = "status"
        /\ req[p].status = "pending"
        /\ req[p].res.status = 200
        /\ req[p].res.body.reviewedAt # NoDate
        /\ req[p].res.body.reviewedAt < now

\* C16: the stored status of every application is one of the six values; a
\* status update by the application's company to any of the six succeeds
\* and stores it, whatever the status was; a status update to any other
\* value is answered as a validation failure and changes nothing.
C16_AnyToAnyOfSix ==
    /\ [](\A a \in DOMAIN applications : applications[a].status \in Statuses)
    /\ [][\A p \in Procs :
            (Completes(p) /\ req'[p].op = "status") =>
                /\ req'[p].status \notin Statuses =>
                       req'[p].res = ValidationFailed /\ applications' = applications
                /\ \A a \in DOMAIN applications :
                       (/\ req'[p].id = a
                        /\ req'[p].user = applications[a].company
                        /\ req'[p].status \in Statuses) =>
                           /\ req'[p].res.status = 200
                           /\ applications'[a].status = req'[p].status]_vars

\* C16 witness: a status outside the six was refused for an application that
\* its company had moved back to pending after a review.
C16_Witness ==
    \E p \in Procs :
        /\ req[p].pc = "done"
        /\ req[p].op = "status"
        /\ req[p].status \notin Statuses
        /\ req[p].res = ValidationFailed
        /\ req[p].id \in DOMAIN applications
        /\ req[p].user = applications[req[p].id].company
        /\ applications[req[p].id].status = "pending"
        /\ applications[req[p].id].reviewedAt # NoDate

\* After the step, a mail about application a has been handed to the relay
\* or a handler is about to hand it over.
NotifyUnderWay(a) ==
    \/ \E m \in outbox' : m.subject = "status" /\ m.about = a
    \/ \E q \in Procs : req'[q].op = "notify" /\ req'[q].pc = "mail" /\ req'[q].id = a

NotifySendOf(p) == req[p].op = "notify" /\ req[p].pc = "mail" /\ req'[p].pc = "done"

MailStepOf(p) ==
    /\ req[p].op \in {"notify", "contact", "broadcast"}
    /\ req[p].pc \in {"mail", "confirm"}
    /\ req'[p] # req[p]

\* The relay refused the mail of this step.
Refused == \E m \in outbox' \ outbox : ~m.ok

DropEmpty(list) == SelectSeq(list, LAMBDA e : e # <<>>)

\* The lists normalizeList allows for an input: the empty list for an absent
\* one; the trimmed, non-empty pieces of a string; for an array the array
\* itself, be it as sent, trimmed, or trimmed and without its empty entries.
NormalizeList(x) ==
    IF x.kind = "absent" THEN {<<>>}
    ELSE IF x.kind = "string" THEN {DropEmpty(SplitTrim(x.value))}
    ELSE LET trimmed == [i \in DOMAIN x.value |-> Trim(x.value[i])]
         IN {x.value, trimmed, DropEmpty(trimmed)}

\* The step in which the create request at p, its body valid, is answered.
CreateOf(p) ==
    /\ req[p].pc = "idle"
    /\ req'[p].op = "create"
    /\ req'[p].pc = "done"
    /\ req'[p].res # ValidationFailed

\* C19: on Create, through POST /api/internships and through POST
\* /api/companies/internships alike, the list field is stored as
\* normalizeList(input): a list is accepted as a list, a string is split on
\* commas, its entries trimmed and the empty ones dropped, in order, and an
\* absent input gives the empty list.
C19_CreateNormalizes ==
    [][\A p \in Procs :
          CreateOf(p) =>
             /\ req'[p].res.status = 201
             /\ req'[p].id \in DOMAIN internships'
             /\ internships'[req'[p].id].skills \in NormalizeList(ListOf(req'[p].body))]_vars

\* The step in which the owner's update of a stored internship, with the list
\* field sent as an array, is answered.
UpdateWithArrayOf(p) ==
    /\ req[p].pc = "idle"
    /\ req'[p].op = "update"
    /\ req'[p].pc = "done"
    /\ req'[p].id \in DOMAIN internships
    /\ internships[req'[p].id].company = req'[p].user
    /\ ListOf(req'[p].body).kind = "array"

\* C20: creating with skills = "a, b, c" stores the list [a, b, c], a fetch
\* answers with the stored list, and an owner's update that sends the list
\* field as a list succeeds and stores exactly that list.
C20_RoundTripAndUpdateWithList ==
    [][\A p \in Procs :
          /\ CreateOf(p) /\ ListOf(req'[p].body) = StringOf(<<"a", ",", " ", "b", ",", " ", "c">>) =>
                /\ req'[p].res.status = 201
                /\ internships'[req'[p].id].skills = << <<"a">>, <<"b">>, <<"c">> >>
          /\ req[p].op = "get" /\ req[p].pc = "save" /\ req'[p].res.status = 200 =>
                req'[p].res.body.skills = internships[req[p].id].skills
          /\ UpdateWithArrayOf(p) =>
                /\ req'[p].res.status = 200
                /\ internships'[req'[p].id].skills \in NormalizeList(ListOf(req'[p].body))]_vars

\* The step in which the delete of a stored internship by its company is answered.
DeleteByOwnerOf(p) ==
    /\ req[p].pc = "idle"
    /\ req'[p].op = "delete"
    /\ req'[p].pc = "done"
    /\ req'[p].id \in DOMAIN internships
    /\ internships[req'[p].id].company = req'[p].user

\* C21: the delete of an internship by its owner is unconditional and hard,
\* with no cascade: it answers 200, the internship is gone, every other
\* internship, every application (those that reference it included), every
\* user, alert and mail is as before.
C21_HardDeleteNoCascade ==
    [][\A p \in Procs :
          DeleteByOwnerOf(p) =>
             /\ req'[p].res.status = 200
             /\ internships' = Remove(internships, req'[p].id)
             /\ UNCHANGED <<applications, users, notifier, community>>]_vars

\* C21 witness: the internship has been deleted by its owner and an
\* application that references it is still stored.
C21_Witness ==
    \E p \in Procs, a \in DOMAIN applications :
        /\ req[p].op = "delete"
        /\ req[p].pc = "done"
        /\ req[p].res.status = 200
        /\ applications[a].internship = req[p].id
        /\ req[p].id \notin DOMAIN internships

\* C22: every response body carries a boolean success flag, true on a success
\* response and false on every error response.
C22_SuccessFlagEverywhere ==
    \A p \in Procs :
        req[p].pc = "done" =>
            req[p].res.success = IF req[p].res.status \in 200..299 THEN "true" ELSE "false"

\* The step in which a request on a protected route is answered to a caller
\* who has no valid token or not the route's role.
TurnedAwayOf(p) ==
    /\ req[p].pc = "idle"
    /\ req'[p].pc = "done"
    /\ req'[p].op \in {"apply", "create", "status"}
    /\ Gate(req'[p].user, RouteRole(req'[p].op)) # NoRes

\* C23: on every protected route the authorization gate runs before input
\* validation: a caller with no valid token or with the wrong role is answered
\* 401 or 403 even when the body is invalid too, never a validation failure.
C23_GateBeforeValidation ==
    [][\A p \in Procs :
          TurnedAwayOf(p) =>
             /\ req'[p].res.status \in {401, 403}
             /\ req'[p].res # ValidationFailed]_vars

\* The step in which a login for a registered principal of the kind the
\* request names is answered.
LoginOf(p, k, e) ==
    /\ req[p].pc = "idle"
    /\ req'[p].op = "login"
    /\ req'[p].pc = "done"
    /\ req'[p].status = k
    /\ req'[p].user = e
    /\ <<k, e>> \in DOMAIN accounts

\* C24: for both kinds of principal, a registration that succeeded with email
\* e and password pw stores the credential hashed, a login with (e, pw) and
\* the kind's discriminator answers 200 with a token and the same email, and a
\* login with another password answers 401.
C24_RegisterThenLogin ==
    /\ [](\A k \in Kinds, e \in Emails :
             <<k, e>> \in DOMAIN accounts => accounts[<<k, e>>].password.hashed)
    /\ [][\A p \in Procs, k \in Kinds, e \in Emails :
             LoginOf(p, k, e) =>
                IF req'[p].body.password = accounts[<<k, e>>].password.text
                THEN /\ req'[p].res.status = 200
                     /\ req'[p].res.body.email = e
                     /\ req'[p].res.body.token = Token(k, e)
                ELSE req'[p].res.status = 401]_vars

\* C28: a principal created through the public POST /api/auth/register never
\* holds the admin or the company role, whatever the body contains.
C28_SelfRegisteredIsIntern ==
    \A e \in Emails :
        <<"user", e>> \in DOMAIN accounts => accounts[<<"user", e>>].role = "intern"

\* A flag of the stored post id changes in the step.
FlagChanges(id) ==
    /\ id \in DOMAIN posts
    /\ id \in DOMAIN posts'
    /\ \/ posts'[id].isPinned # posts[id].isPinned
       \/ posts'[id].isLocked # posts[id].isLocked

\* C25: pinning and locking are admin-only: a post's isPinned and isLocked
\* change only in the save of the pin or lock endpoint, called by an admin,
\* never in an operation open to the post's author, the update included.
C25_PinAndLockAdminOnly ==
    [][\A id \in DOMAIN posts :
          FlagChanges(id) =>
             \E p \in Procs :
                /\ req[p].op = "toggle"
                /\ req'[p].pc = "done"
                /\ req[p].id = id
                /\ ForumRole(req[p].user) = "admin"]_vars

\* The applications an apply request has stored so far.
CreatedBy(r) == {a \in DOMAIN applications' : a = r.app}

\* C26: apply is all-or-nothing: when an apply request ends in an error
\* response, no application created by it exists and its last step leaves
\* the internships as they were; when it ends in 201, the application it
\* created is stored and its last step raises the internship's
\* currentApplications by one.
C26_ApplyAllOrNothing ==
    [][\A p \in Procs :
        (Completes(p) /\ req'[p].op = "apply") =>
            LET r == req'[p]
            IN IF r.res.status = 201
               THEN /\ CreatedBy(r) # {}
                    /\ internships'[r.id].currentApplications =
                          internships[r.id].currentApplications + 1
               ELSE /\ CreatedBy(r) = {}
                    /\ internships' = internships]_vars

\* C27: once the apply requests on an internship have completed, in any
\* interleaving of their steps and with no update of the internship, its
\* currentApplications equals the number of requests answered 201, which is
\* the number of applications that reference it.
C27_NoIncrementLost ==
    NoneInFlight =>
        \A i \in DOMAIN internships :
            /\ internships[i].currentApplications = succeeded.apply[i]
            /\ internships[i].currentApplications = Cardinality(ApplicationsFor(i))

\* C29: in every reachable state each student has at most one alert with
\* isActive = true, whatever alert requests the student has sent, one after
\* another or concurrently.
C29_OneActiveAlert ==
    \A s \in Students : Cardinality(ActiveAlerts(s)) <= 1

\* A step of the loop of send-notifications taken by request p.
BroadcastStepOf(p) ==
    /\ req[p].op = "broadcast"
    /\ req[p].pc \in {"loop", "mail", "save"}
    /\ req'[p] # req[p]

\* C30: send-notifications processes the alerts independently: the request
\* ends only after the last alert, in the 200; a refused mail adds one entry
\* to errors and counts nothing; every mail that was sent is followed by the
\* save of lastSent and one more in emailsSent, which change in no other
\* step; and no mail goes out for an alert whose criteria match no active
\* internship.
C30_AlertsProcessedIndependently ==
    [][\A p \in Procs :
        BroadcastStepOf(p) =>
            LET alert == Head(req[p].doc)
                before == req[p].body
                after == req'[p].body
            IN /\ req'[p].pc = "done" =>
                     /\ req'[p].res.status = 200
                     /\ Tail(req[p].doc) = <<>>
               /\ (req[p].pc = "loop" /\ AlertMatches(alert) = {}) =>
                     /\ req'[p].pc # "mail"
                     /\ outbox' = outbox
               /\ (req[p].pc = "mail" /\ req'[p].pc # "save") =>
                     /\ Len(after.errors) = Len(before.errors) + 1
                     /\ after.emailsSent = before.emailsSent
               /\ req[p].pc = "save" =>
                     /\ after.emailsSent = before.emailsSent + 1
                     /\ after.errors = before.errors
                     /\ alert.id \in DOMAIN alerts' => alerts'[alert.id].lastSent = now
               /\ req[p].pc # "save" =>
                     /\ after.emailsSent = before.emailsSent
                     /\ alerts' = alerts]_vars

====
